---- MODULE Spec2Model ----
(***************************************************************************)
(* A model of history-grep (hgr): the history-file parsers of              *)
(* src/histfile.rs and src/lib.rs, the deduplicator, the entry matcher    *)
(* and the pattern compiler.                                               *)
(*                                                                         *)
(* Text is modelled by TLA+ strings, read character by character with      *)
(* SubSeq, so that parsing, splitting, joining and escaping are computed   *)
(* the way the code computes them.  A 64-bit integer is modelled by its    *)
(* sign and its decimal magnitude (a string without leading zeros),        *)
(* because the values that matter (i64::MAX, chrono's range) do not fit    *)
(* the model checker's integers.                                           *)
(***************************************************************************)
EXTENDS Integers, Sequences, FiniteSets, TLC

VARIABLES
    \* ---- parse_history_file (both parsers read the same reader) ----
    input,          \* the bytes of the history file
    rest,           \* the bytes the BufReader has not yet handed out
    line_no,        \* number of lines read so far (1-based number of `line`)
    line,           \* the line read last
    lines_read,     \* the lines the reader has yielded so far
    pc,             \* "reading" | "done" | "failed" | "idle"
    h_state,        \* histfile.rs: FileParseState
    h_cur_ts,       \* histfile.rs: cur_ts
    h_cur_lines,    \* histfile.rs: cur_lines
    h_ret,          \* histfile.rs: ret
    l_state,        \* lib.rs: FileParseState
    l_cur_entry,    \* lib.rs: cur_entry
    l_ret,          \* lib.rs: ret
    h_result,       \* histfile.rs: what parse_history_file has returned
    l_result,       \* lib.rs: what parse_history_file has returned
    \* ---- ParsedLine::parse on one line ----
    pl_line,        \* the line handed to ParsedLine::parse
    pl_hist,        \* histfile.rs ParsedLine::parse(pl_line), or NotRun
    pl_lib,         \* lib.rs ParsedLine::parse(pl_line), or NotRun
    \* ---- dedup_entries ----
    d_entries,      \* the entries handed to dedup_entries
    d_once,         \* dedup_entries(d_entries)
    d_twice,        \* dedup_entries(d_once)
    d_pc,           \* "start" | "once" | "twice" | "idle"
    \* ---- HistEntry::matches and the batch loop of main.rs ----
    m_entries,      \* histfile.rs entries
    m_lib_entries,  \* the same entries as lib.rs holds them
    m_include,      \* raw include patterns
    m_exclude,      \* raw exclude patterns
    m_extra,        \* one more raw pattern
    m_case,         \* CaseMode
    m_inc_re,       \* process_patterns(m_include)
    m_exc_re,       \* process_patterns(m_exclude)
    m_extra_re,     \* process_patterns([m_extra])
    m_base,         \* per entry: matches(include, exclude)
    m_more_inc,     \* per entry: matches(include + [extra], exclude)
    m_more_exc,     \* per entry: matches(include, exclude + [extra])
    m_out,          \* main.rs: the (index, entry) pairs printed
    m_tz,           \* the offset of the local time zone from UTC, in seconds
    m_stdout,       \* main.rs: what println! has written
    m_pc,           \* "start" | "compiled" | "failed" | "base" | "inc" | "exc"
                    \* | "done" | "idle"
    \* ---- string_to_regex and Regex::is_match ----
    p_raw,          \* the raw pattern string
    p_case,         \* CaseMode
    p_text,         \* the text the compiled pattern is tried on
    p_re,           \* string_to_regex(p_raw, p_case)
    p_match,        \* p_re.is_match(p_text)
    p_pc,           \* "start" | "compiled" | "failed" | "matched" | "idle"
    \* ---- process_patterns, as actual_main calls it ----
    pp_include,     \* args.patterns
    pp_exclude,     \* args.exclude
    pp_case,        \* CaseMode
    pp_inc,         \* process_patterns(args.patterns, case_mode), or NotProcessed
    pp_exc,         \* process_patterns(args.exclude, case_mode), or NotProcessed
    pp_pc,          \* "start" | "included" | "compiled" | "failed" | "idle"
    \* ---- interactive.rs: run_interactive, App ----
    a_in,           \* the arguments of run_interactive: entries, inital_search,
                    \* exclude_re, case_mode; and the rows of the terminal
    a_entries,      \* App::entries, the master list
    a_filtered,     \* App::filtered_entries: entries, state (ListState),
                    \* pagination_num_lines
    a_case,         \* App::case_mode
    a_search,       \* App::search_input: value and cursor
    a_event,        \* the event read last
    a_raw,          \* the terminal is in the mode ratatui::init() sets up
    a_restores,     \* number of calls of ratatui::restore()
    a_result,       \* what run has returned
    a_pc,           \* "start" | "constructed" | "draw" | "read" | "returned"
                    \* | "failed" | "idle"
    \* ---- interactive.rs: HistEntryWrapper::from ----
    w_entry,        \* the HistEntry that is wrapped
    w_tz,           \* the offset of the local time zone from UTC, in seconds
    w_lines,        \* HistEntryWrapper::lines
    w_pc            \* "start" | "wrapped" | "idle"

parseVars == <<input, rest, line_no, line, lines_read, pc, h_state, h_cur_ts,
               h_cur_lines, h_ret, l_state, l_cur_entry, l_ret, h_result,
               l_result>>
lineVars == <<pl_line, pl_hist, pl_lib>>
dedupVars == <<d_entries, d_once, d_twice, d_pc>>
matchIn == <<m_entries, m_lib_entries, m_include, m_exclude, m_extra, m_case,
             m_tz>>
matchRe == <<m_inc_re, m_exc_re, m_extra_re>>
matchVars == <<matchIn, matchRe, m_base, m_more_inc, m_more_exc, m_out, m_stdout,
               m_pc>>
patternVars == <<p_raw, p_case, p_text, p_re, p_match, p_pc>>
processVars == <<pp_include, pp_exclude, pp_case, pp_inc, pp_exc, pp_pc>>
coreVars == <<parseVars, lineVars, dedupVars, matchVars, patternVars>>
appVars == <<a_in, a_entries, a_filtered, a_case, a_search, a_event, a_raw,
             a_restores, a_result, a_pc>>
wrapVars == <<w_entry, w_tz, w_lines, w_pc>>
restVars == <<processVars, appVars, wrapVars>>
vars == <<coreVars, restVars>>

(***************************************************************************)
(* Strings                                                                 *)
(***************************************************************************)

\* The i-th character of s, as a string of length 1.
Ch(s, i) == SubSeq(s, i, i)

\* s without its first n characters.
Drop(s, n) == SubSeq(s, n + 1, Len(s))

None == [some |-> FALSE, val |-> ""]
Some(v) == [some |-> TRUE, val |-> v]

\* str::strip_prefix
strip_prefix(s, p) ==
    IF Len(s) >= Len(p) /\ SubSeq(s, 1, Len(p)) = p
    THEN Some(Drop(s, Len(p)))
    ELSE None

\* str::strip_suffix
strip_suffix(s, p) ==
    IF Len(s) >= Len(p) /\ SubSeq(s, Len(s) - Len(p) + 1, Len(s)) = p
    THEN Some(SubSeq(s, 1, Len(s) - Len(p)))
    ELSE None

\* char::is_whitespace, on the characters of the model
is_whitespace(c) == c \in {" ", "\t", "\n", "\r", "\f"}

\* [String]::join
RECURSIVE join(_, _)
join(strs, sep) ==
    IF strs = <<>> THEN ""
    ELSE IF Len(strs) = 1 THEN strs[1]
    ELSE strs[1] \o sep \o join(Tail(strs), sep)

(***************************************************************************)
(* str::parse::<i64>                                                       *)
(***************************************************************************)

Digits == {"0", "1", "2", "3", "4", "5", "6", "7", "8", "9"}

DigitMap == [c \in Digits |-> CHOOSE n \in 0..9 : ToString(n) = c]

DigitVal(c) == DigitMap[c]

\* A decimal magnitude without its leading zeros ("0" for zero).
RECURSIVE StripZeros(_)
StripZeros(d) ==
    IF Len(d) > 1 /\ Ch(d, 1) = "0" THEN StripZeros(Drop(d, 1)) ELSE d

\* a > b, for two magnitudes of the same length
RECURSIVE LexGt(_, _)
LexGt(a, b) ==
    IF a = "" THEN FALSE
    ELSE IF Ch(a, 1) # Ch(b, 1) THEN DigitVal(Ch(a, 1)) > DigitVal(Ch(b, 1))
    ELSE LexGt(Drop(a, 1), Drop(b, 1))

\* a > b and a >= b, for two magnitudes without leading zeros
DecGt(a, b) == Len(a) > Len(b) \/ (Len(a) = Len(b) /\ LexGt(a, b))
DecGeq(a, b) == a = b \/ DecGt(a, b)

I64_MAX == "9223372036854775807"
I64_MIN_MAGNITUDE == "9223372036854775808"

ParseErr == [ok |-> FALSE, neg |-> FALSE, mag |-> ""]

AllDigits(s) == \A i \in 1..Len(s) : Ch(s, i) \in Digits

\* str::parse::<i64>: an optional sign, then one or more ASCII digits; a value
\* outside the 64-bit range is an error.
parse_i64(s) ==
    IF s = "" THEN ParseErr
    ELSE IF s = "+" \/ s = "-" THEN ParseErr
    ELSE LET neg == Ch(s, 1) = "-"
             digits == IF Ch(s, 1) \in {"+", "-"} THEN Drop(s, 1) ELSE s
             mag == StripZeros(digits)
         IN  IF ~AllDigits(digits) THEN ParseErr
             ELSE IF neg /\ DecGt(mag, I64_MIN_MAGNITUDE) THEN ParseErr
             ELSE IF ~neg /\ DecGt(mag, I64_MAX) THEN ParseErr
             ELSE [ok |-> TRUE, neg |-> neg /\ mag # "0", mag |-> mag]

(***************************************************************************)
(* Timestamps                                                              *)
(***************************************************************************)

MIN_REASONABLE_UNIXTIME == 1262304000

\* The largest second chrono's DateTime<Utc> represents (year 262142).
CHRONO_MAX_SECS == "8210266876799"

\* DateTime::from_timestamp(secs, 0), for secs >= 0: the DateTime is modelled by
\* its seconds since the epoch, in decimal.
from_timestamp(mag) ==
    IF DecGt(mag, CHRONO_MAX_SECS) THEN None ELSE Some(mag)

default_ts == from_timestamp(ToString(MIN_REASONABLE_UNIXTIME)).val

\* unixtime >= MIN_REASONABLE_UNIXTIME
ge_min_reasonable(n) ==
    ~n.neg /\ DecGeq(n.mag, ToString(MIN_REASONABLE_UNIXTIME))

(***************************************************************************)
(* ParsedLine                                                              *)
(***************************************************************************)

Timestamp(ts) == [kind |-> "Timestamp", ts |-> ts, text |-> ""]
Command(text) == [kind |-> "Command", ts |-> "", text |-> text]
Empty == [kind |-> "Empty", ts |-> "", text |-> ""]
NotRun == [kind |-> "NotRun", ts |-> "", text |-> ""]

\* The `if let Some(stripped) = line.strip_prefix('#')` block shared by the two
\* ParsedLine::parse: the timestamp, if the line is one.
maybe_ts(ln) ==
    LET stripped == strip_prefix(ln, "#")
    IN  IF ~stripped.some THEN None
        ELSE LET unixtime == parse_i64(stripped.val)
             IN  IF unixtime.ok /\ ge_min_reasonable(unixtime)
                 THEN from_timestamp(unixtime.mag)
                 ELSE None

\* histfile.rs ParsedLine::parse
ParsedLine_parse(ln) ==
    LET ts == maybe_ts(ln)
    IN  IF ts.some THEN Timestamp(ts.val) ELSE Command(ln)

\* lib.rs ParsedLine::parse
\* A plausible slip: only the empty line is Empty, not a line of whitespace.
Lib_ParsedLine_parse_empty_only(ln) ==
    IF ln = ""
    THEN Empty
    ELSE LET ts == maybe_ts(ln)
         IN  IF ts.some THEN Timestamp(ts.val) ELSE Command(ln)

Lib_ParsedLine_parse(ln) ==
    IF ln = "" \/ \A i \in 1..Len(ln) : is_whitespace(Ch(ln, i))
    THEN Empty
    ELSE LET ts == maybe_ts(ln)
         IN  IF ts.some THEN Timestamp(ts.val) ELSE Command(ln)

(***************************************************************************)
(* BufRead::lines                                                          *)
(***************************************************************************)

\* Position of the first "\n" of s, 0 if there is none.
RECURSIVE FindNewline(_, _)
FindNewline(s, i) ==
    IF i > Len(s) THEN 0
    ELSE IF Ch(s, i) = "\n" THEN i
    ELSE FindNewline(s, i + 1)

\* One call of Lines::next on a reader holding s (s # ""): the line, without
\* its "\n" or "\r\n", and what the reader holds afterwards.
\* A plausible slip: an empty line ends the reading.
read_line_ending_at_empty(s) ==
    LET nl == FindNewline(s, 1)
    IN  IF nl = 0 THEN [line |-> s, rest |-> ""]
        ELSE [line |-> SubSeq(s, 1, nl - 1),
              rest |-> IF nl = 1 THEN "" ELSE Drop(s, nl)]

read_line(s) ==
    LET nl == FindNewline(s, 1)
    IN  IF nl = 0 THEN [line |-> s, rest |-> ""]
        ELSE LET raw == SubSeq(s, 1, nl - 1)
                 cr == strip_suffix(raw, "\r")
             IN  [line |-> IF cr.some THEN cr.val ELSE raw,
                  rest |-> Drop(s, nl)]

(***************************************************************************)
(* parse_history_file, histfile.rs                                         *)
(***************************************************************************)

HistEntry(ts, command) == [ts |-> ts, command |-> command]

\* (NoTimestamps, Command): each line is a command of its own.
\* A plausible slip: the line is gathered for the entry in the making.
push_standalone_gathering(st, cmd) ==
    [st EXCEPT !.cur_lines = Append(@, cmd), !.state = "NoTimestamps"]

push_standalone(st, cmd) ==
    [st EXCEPT !.ret = Append(@, HistEntry(default_ts, cmd)),
               !.state = "NoTimestamps"]

\* (NoTimestamps, Timestamp): the first timestamp.
\* A plausible slip: the state is not left.
first_timestamp_keeping_state(st, ts) ==
    [st EXCEPT !.cur_ts = ts, !.state = "NoTimestamps"]

first_timestamp(st, ts) ==
    [st EXCEPT !.cur_ts = ts, !.state = "LastWasTimestamp"]

\* (LastWasTimestamp | LastWasCommand, Command)
\* A plausible slip: a blank line is not gathered.
push_line_skipping_blank(st, cmd) ==
    IF \A i \in 1..Len(cmd) : is_whitespace(Ch(cmd, i))
    THEN st
    ELSE [st EXCEPT !.cur_lines = Append(@, cmd), !.state = "LastWasCommand"]

push_line(st, cmd) ==
    [st EXCEPT !.cur_lines = Append(@, cmd), !.state = "LastWasCommand"]

\* (LastWasTimestamp, Timestamp): the timestamp is ignored.
\* A plausible slip: the later timestamp wins.
ignore_timestamp_last_wins(st, ts) ==
    [st EXCEPT !.cur_ts = ts, !.state = "LastWasTimestamp"]

ignore_timestamp(st, ts) ==
    [st EXCEPT !.state = "LastWasTimestamp"]

\* (LastWasCommand, Timestamp): the entry gathered so far is complete.
\* A plausible slip: cur_lines.clear() is forgotten.
flush_entry_no_clear(st, ts) ==
    [st EXCEPT !.ret = Append(@, HistEntry(st.cur_ts, join(st.cur_lines, "\n"))),
               !.cur_ts = ts,
               !.state = "LastWasTimestamp"]

flush_entry(st, ts) ==
    [st EXCEPT !.ret = Append(@, HistEntry(st.cur_ts, join(st.cur_lines, "\n"))),
               !.cur_ts = ts,
               !.cur_lines = <<>>,
               !.state = "LastWasTimestamp"]

\* anyhow::Result<Vec<HistEntry>>, and no result yet.
NotParsed == [ok |-> FALSE, res |-> <<>>, err |-> ""]
Parsed(ret) == [ok |-> TRUE, res |-> ret, err |-> ""]

\* The head of the `for` loop when the reader yields an error for the item of
\* index idx of `.enumerate()`: `line_no += 1`, and `?` returns the error with
\* the context.
\* A plausible slip: the number is the index of enumerate().
read_error_zero_based(idx) ==
    [ok |-> FALSE, res |-> <<>>,
     err |-> "Error reading line number " \o ToString(idx)]

read_error(idx) ==
    LET line_no_1 == idx + 1
    IN  [ok |-> FALSE, res |-> <<>>,
         err |-> "Error reading line number " \o ToString(line_no_1)]

\* The body of the `for` loop: the match on (state, parsed).
\* A plausible slip: without a timestamp yet, lines are gathered as well.
parse_step_always_gathering(st, parsed) ==
    CASE parsed.kind = "Command" -> push_line(st, parsed.text)
      [] st.state = "NoTimestamps" /\ parsed.kind = "Timestamp" ->
            first_timestamp(st, parsed.ts)
      [] st.state = "LastWasTimestamp" /\ parsed.kind = "Timestamp" ->
            ignore_timestamp(st, parsed.ts)
      [] st.state = "LastWasCommand" /\ parsed.kind = "Timestamp" ->
            flush_entry(st, parsed.ts)

parse_step(st, parsed) ==
    CASE st.state = "NoTimestamps" /\ parsed.kind = "Command" ->
            push_standalone(st, parsed.text)
      [] st.state = "NoTimestamps" /\ parsed.kind = "Timestamp" ->
            first_timestamp(st, parsed.ts)
      [] st.state \in {"LastWasTimestamp", "LastWasCommand"}
            /\ parsed.kind = "Command" ->
            push_line(st, parsed.text)
      [] st.state = "LastWasTimestamp" /\ parsed.kind = "Timestamp" ->
            ignore_timestamp(st, parsed.ts)
      [] st.state = "LastWasCommand" /\ parsed.kind = "Timestamp" ->
            flush_entry(st, parsed.ts)

\* After the loop: flush the last command.
\* A plausible slip: a trailing timestamp is flushed as well.
parse_finish_flushing_timestamp(st) ==
    IF st.state # "NoTimestamps"
    THEN Append(st.ret, HistEntry(st.cur_ts, join(st.cur_lines, "\n")))
    ELSE st.ret

parse_finish(st) ==
    IF st.state = "LastWasCommand"
    THEN Append(st.ret, HistEntry(st.cur_ts, join(st.cur_lines, "\n")))
    ELSE st.ret

(***************************************************************************)
(* parse_history_file, lib.rs                                              *)
(***************************************************************************)

LibEntry(ts, lines) == [ts |-> ts, lines |-> lines]

\* HistEntry::with_ts
with_ts(ts) == LibEntry(ts, <<>>)

\* A plausible slip: an Empty line is taken as a line of the command.
lib_parse_step_keeping_empty(st, parsed) ==
    CASE st.state = "NoTimestamps" /\ parsed.kind \in {"Command", "Empty"} ->
            [st EXCEPT !.ret = Append(@, LibEntry(default_ts, <<"">>))]
      [] st.state = "NoTimestamps" /\ parsed.kind = "Timestamp" ->
            [st EXCEPT !.cur_entry.ts = parsed.ts,
                       !.state = "LastWasTimestamp"]
      [] st.state \in {"LastWasTimestamp", "LastWasCommand"}
            /\ parsed.kind \in {"Command", "Empty"} ->
            [st EXCEPT !.cur_entry.lines = Append(@, ""),
                       !.state = "LastWasCommand"]
      [] st.state = "LastWasTimestamp" /\ parsed.kind = "Timestamp" ->
            [st EXCEPT !.state = "LastWasTimestamp"]
      [] st.state = "LastWasCommand" /\ parsed.kind = "Timestamp" ->
            [st EXCEPT !.ret = Append(@, st.cur_entry),
                       !.cur_entry = with_ts(parsed.ts),
                       !.state = "LastWasTimestamp"]

lib_parse_step(st, parsed) ==
    CASE parsed.kind = "Empty" -> st
      [] st.state = "NoTimestamps" /\ parsed.kind = "Command" ->
            [st EXCEPT !.ret = Append(@, LibEntry(default_ts, <<parsed.text>>))]
      [] st.state = "NoTimestamps" /\ parsed.kind = "Timestamp" ->
            [st EXCEPT !.cur_entry.ts = parsed.ts,
                       !.state = "LastWasTimestamp"]
      [] st.state \in {"LastWasTimestamp", "LastWasCommand"}
            /\ parsed.kind = "Command" ->
            [st EXCEPT !.cur_entry.lines = Append(@, parsed.text),
                       !.state = "LastWasCommand"]
      [] st.state = "LastWasTimestamp" /\ parsed.kind = "Timestamp" ->
            [st EXCEPT !.state = "LastWasTimestamp"]
      [] st.state = "LastWasCommand" /\ parsed.kind = "Timestamp" ->
            [st EXCEPT !.ret = Append(@, st.cur_entry),
                       !.cur_entry = with_ts(parsed.ts),
                       !.state = "LastWasTimestamp"]

\* A plausible slip: the entry gathered last is not returned.
lib_parse_finish_without_last(st) == st.ret

lib_parse_finish(st) ==
    IF st.state = "LastWasCommand" THEN Append(st.ret, st.cur_entry) ELSE st.ret

(***************************************************************************)
(* dedup_entries, histfile.rs                                              *)
(***************************************************************************)

\* The `for` loop of dedup_entries over the entries not yet seen.
\* A plausible slip: an entry is compared with every entry kept so far.
RECURSIVE dedup_loop_all_kept(_, _)
dedup_loop_all_kept(ret, todo) ==
    IF todo = <<>> THEN ret
    ELSE IF \E k \in 1..Len(ret) : ret[k].command = todo[1].command
         THEN dedup_loop_all_kept(ret, Tail(todo))
         ELSE dedup_loop_all_kept(Append(ret, todo[1]), Tail(todo))

\* A plausible slip: an entry is compared with the entry before it only if
\* that one was kept, so that every other entry of a run survives.
RECURSIVE dedup_loop_skip_resets(_, _, _)
dedup_loop_skip_resets(ret, todo, prev_kept) ==
    IF todo = <<>> THEN ret
    ELSE IF prev_kept /\ ret # <<>> /\ ret[Len(ret)].command = todo[1].command
         THEN dedup_loop_skip_resets(ret, Tail(todo), FALSE)
         ELSE dedup_loop_skip_resets(Append(ret, todo[1]), Tail(todo), TRUE)

RECURSIVE dedup_loop(_, _)
dedup_loop(ret, todo) ==
    IF todo = <<>> THEN ret
    ELSE IF ret # <<>> /\ ret[Len(ret)].command = todo[1].command
         THEN dedup_loop(ret, Tail(todo))
         ELSE dedup_loop(Append(ret, todo[1]), Tail(todo))

dedup_entries_all_kept(entries) ==
    IF entries = <<>> THEN entries ELSE dedup_loop_all_kept(<<>>, entries)

dedup_entries_skip_resets(entries) ==
    IF entries = <<>> THEN entries ELSE dedup_loop_skip_resets(<<>>, entries, FALSE)

dedup_entries(entries) ==
    IF entries = <<>> THEN entries ELSE dedup_loop(<<>>, entries)

(***************************************************************************)
(* Regular expressions: the fragment of the regex crate the patterns of    *)
(* the model use.  A pattern is a sequence of items: a literal character,  *)
(* `.`, a character class `[...]`, each possibly repeated by `+`, `*` or   *)
(* `?`, and the anchors `^` and `$`; `\` makes the metacharacter after it  *)
(* a literal.  Groups, alternation, counted repetition, ranges and the     *)
(* escapes of letters are outside the fragment: no pattern of the model    *)
(* has them, apart from a lone `(` or `)`, which is a syntax error.        *)
(***************************************************************************)

\* regex_syntax::is_meta_character
MetaChars == {"\\", ".", "+", "*", "?", "(", ")", "|", "[", "]", "{", "}",
              "^", "$", "#", "&", "-", "~"}

\* regex::escape
RECURSIVE escape(_)
escape(s) ==
    IF s = "" THEN ""
    ELSE (IF Ch(s, 1) \in MetaChars THEN "\\" \o Ch(s, 1) ELSE Ch(s, 1))
            \o escape(Drop(s, 1))

Lit(c) == [kind |-> "lit", c |-> c, set |-> {}, neg |-> FALSE, q |-> "one"]
AnyChar == [kind |-> "any", c |-> "", set |-> {}, neg |-> FALSE, q |-> "one"]
Class(set, neg) == [kind |-> "class", c |-> "", set |-> set, neg |-> neg, q |-> "one"]
Bol == [kind |-> "bol", c |-> "", set |-> {}, neg |-> FALSE, q |-> "one"]
Eol == [kind |-> "eol", c |-> "", set |-> {}, neg |-> FALSE, q |-> "one"]

SyntaxError == [ok |-> FALSE, prog |-> <<>>]

Quantifier(c) == CASE c = "+" -> "plus" [] c = "*" -> "star" [] c = "?" -> "opt"

\* The position of the `]` that closes the class whose members start at i
\* (a `]` at i itself is a member), 0 if the class is not closed.
RECURSIVE ClassEnd(_, _, _)
ClassEnd(p, i, first) ==
    IF i > Len(p) THEN 0
    ELSE IF Ch(p, i) = "]" /\ ~first THEN i
    ELSE ClassEnd(p, i + 1, FALSE)

\* The parser of the regex crate, on pattern p from position i, with the
\* items parsed so far.
RECURSIVE regex_parse(_, _, _)
regex_parse(p, i, prog) ==
    IF i > Len(p) THEN [ok |-> TRUE, prog |-> prog]
    ELSE LET c == Ch(p, i)
         IN  CASE c = "\\" ->
                    IF i < Len(p) /\ Ch(p, i + 1) \in MetaChars
                    THEN regex_parse(p, i + 2, Append(prog, Lit(Ch(p, i + 1))))
                    ELSE SyntaxError
               [] c = "." -> regex_parse(p, i + 1, Append(prog, AnyChar))
               [] c = "^" -> regex_parse(p, i + 1, Append(prog, Bol))
               [] c = "$" -> regex_parse(p, i + 1, Append(prog, Eol))
               [] c \in {"+", "*", "?"} ->
                    IF prog # <<>> /\ prog[Len(prog)].q = "one"
                       /\ prog[Len(prog)].kind \notin {"bol", "eol"}
                    THEN regex_parse(p, i + 1,
                            [prog EXCEPT ![Len(prog)].q = Quantifier(c)])
                    ELSE SyntaxError
               [] c = "[" ->
                    LET neg == i < Len(p) /\ Ch(p, i + 1) = "^"
                        from == IF neg THEN i + 2 ELSE i + 1
                        to == ClassEnd(p, from, TRUE)
                    IN  IF to = 0 THEN SyntaxError
                        ELSE regex_parse(p, to + 1,
                                Append(prog,
                                       Class({Ch(p, k) : k \in from..(to - 1)}, neg)))
               [] c \in {"(", ")"} -> SyntaxError
               [] OTHER -> regex_parse(p, i + 1, Append(prog, Lit(c)))

UpperCase == "ABCDEFGHIJKLMNOPQRSTUVWXYZ"
LowerCase == "abcdefghijklmnopqrstuvwxyz"

FoldMap ==
    [c \in {Ch(UpperCase, i) : i \in 1..26} |->
        Ch(LowerCase, CHOOSE i \in 1..26 : Ch(UpperCase, i) = c)]

\* Simple case folding, on the ASCII letters.
Fold(c) == IF c \in DOMAIN FoldMap THEN FoldMap[c] ELSE c

\* Whether item it matches the character c.
item_matches(it, c, ci) ==
    CASE it.kind = "lit" -> IF ci THEN Fold(it.c) = Fold(c) ELSE it.c = c
      [] it.kind = "any" -> c # "\n"
      [] it.kind = "class" ->
            LET in == IF ci THEN \E m \in it.set : Fold(m) = Fold(c)
                      ELSE c \in it.set
            IN  in # it.neg
      [] OTHER -> FALSE

\* Whether the items from the k-th on match text at position pos.
RECURSIVE match_here(_, _, _, _, _)
match_here(prog, k, text, pos, ci) ==
    IF k > Len(prog) THEN TRUE
    ELSE LET it == prog[k]
             hit == pos <= Len(text) /\ item_matches(it, Ch(text, pos), ci)
         IN  CASE it.kind = "bol" ->
                    pos = 1 /\ match_here(prog, k + 1, text, pos, ci)
               [] it.kind = "eol" ->
                    pos = Len(text) + 1 /\ match_here(prog, k + 1, text, pos, ci)
               [] it.q = "one" ->
                    hit /\ match_here(prog, k + 1, text, pos + 1, ci)
               [] it.q = "opt" ->
                    \/ hit /\ match_here(prog, k + 1, text, pos + 1, ci)
                    \/ match_here(prog, k + 1, text, pos, ci)
               [] it.q = "star" ->
                    \/ match_here(prog, k + 1, text, pos, ci)
                    \/ hit /\ match_here(prog, k, text, pos + 1, ci)
               [] it.q = "plus" ->
                    hit /\ (\/ match_here(prog, k + 1, text, pos + 1, ci)
                            \/ match_here(prog, k, text, pos + 1, ci))

\* RegexBuilder::new(pattern).case_insensitive(ci).unicode(true).build()
RegexBuilder_build(pattern, ci) ==
    LET parsed == regex_parse(pattern, 1, <<>>)
    IN  [ok |-> parsed.ok, src |-> pattern, ci |-> ci, prog |-> parsed.prog]

\* Regex::is_match: the pattern matches somewhere in text.
is_match(re, text) ==
    \E pos \in 1..(Len(text) + 1) : match_here(re.prog, 1, text, pos, re.ci)

(***************************************************************************)
(* string_to_regex, lib.rs                                                 *)
(***************************************************************************)

\* `s.strip_prefix("/").and_then(|s| s.strip_suffix("/"))`
\* A plausible slip: the suffix is stripped from the whole of s.
regex_pattern_of_whole(s) ==
    IF strip_prefix(s, "/").some /\ strip_suffix(s, "/").some
    THEN Some(strip_suffix(strip_prefix(s, "/").val, "/").val)
    ELSE None

regex_pattern(s) ==
    LET inner == strip_prefix(s, "/")
    IN  IF inner.some THEN strip_suffix(inner.val, "/") ELSE None

\* A plausible slip: a string that is not delimited is compiled as it stands.
string_to_regex_unescaped(s, case_mode) ==
    LET delimited == regex_pattern(s)
        pattern == IF delimited.some THEN delimited.val ELSE s
    IN  RegexBuilder_build(pattern, case_mode = "Insensitive")

string_to_regex(s, case_mode) ==
    LET delimited == regex_pattern(s)
        pattern == IF delimited.some THEN delimited.val ELSE escape(s)
    IN  RegexBuilder_build(pattern, case_mode = "Insensitive")

(***************************************************************************)
(* HistEntry::matches                                                      *)
(***************************************************************************)

\* Iterator::all and Iterator::any over the regexes, left to right.
RECURSIVE all_match(_, _)
all_match(res, text) ==
    IF res = <<>> THEN TRUE
    ELSE IF ~is_match(res[1], text) THEN FALSE
    ELSE all_match(Tail(res), text)

RECURSIVE any_match(_, _)
any_match(res, text) ==
    IF res = <<>> THEN FALSE
    ELSE IF is_match(res[1], text) THEN TRUE
    ELSE any_match(Tail(res), text)

\* histfile.rs HistEntry::matches
\* A plausible slip: one matching include pattern is enough.
matches_any_include(entry, include_re, exclude_re) ==
    any_match(include_re, entry.command) /\ ~any_match(exclude_re, entry.command)

\* A plausible slip: the entry is dropped only if every exclude pattern matches.
matches_all_exclude(entry, include_re, exclude_re) ==
    /\ all_match(include_re, entry.command)
    /\ ~(exclude_re # <<>> /\ all_match(exclude_re, entry.command))

matches(entry, include_re, exclude_re) ==
    all_match(include_re, entry.command) /\ ~any_match(exclude_re, entry.command)

\* lib.rs HistEntry::matches
lib_matches(entry, include_re, exclude_re) ==
    LET command == IF Len(entry.lines) = 1 THEN entry.lines[1]
                   ELSE join(entry.lines, "\n")
    IN  all_match(include_re, command) /\ ~any_match(exclude_re, command)

(***************************************************************************)
(* process_patterns, lib.rs, and the batch loop of main.rs                 *)
(***************************************************************************)

\* The `map(..).collect()` of process_patterns: the regexes in input order, or
\* the error of the first pattern that does not compile: the context message
\* (its backquotes written as ') and the regex::Error, which quotes the
\* pattern handed to RegexBuilder.
RECURSIVE process_from(_, _, _)
process_from(patterns, case_mode, done) ==
    IF patterns = <<>> THEN [ok |-> TRUE, res |-> done, err |-> "", cause |-> ""]
    ELSE LET re == string_to_regex(patterns[1], case_mode)
         IN  IF re.ok
             THEN process_from(Tail(patterns), case_mode, Append(done, re))
             ELSE [ok |-> FALSE, res |-> <<>>,
                   err |-> "Error parsing pattern '" \o patterns[1] \o "'",
                   cause |-> re.src]

\* A plausible slip: a pattern that does not compile is left out.
RECURSIVE process_from_lenient(_, _, _)
process_from_lenient(patterns, case_mode, done) ==
    IF patterns = <<>> THEN [ok |-> TRUE, res |-> done, err |-> "", cause |-> ""]
    ELSE LET re == string_to_regex(patterns[1], case_mode)
         IN  process_from_lenient(Tail(patterns), case_mode,
                                  IF re.ok THEN Append(done, re) ELSE done)

process_patterns_lenient(patterns, case_mode) ==
    process_from_lenient(patterns, case_mode, <<>>)

process_patterns(patterns, case_mode) == process_from(patterns, case_mode, <<>>)

\* The seconds of a DateTime<Utc> as a number; the model's numbers hold the
\* timestamps before 2038.
RECURSIVE dec_value(_, _)
dec_value(s, acc) ==
    IF s = "" THEN acc
    ELSE dec_value(SubSeq(s, 2, Len(s)), acc * 10 + DigitVal(Ch(s, 1)))

timestamp(ts) == dec_value(ts, 0)

\* Floor division by a positive number.
div_floor(a, b) == IF a >= 0 THEN a \div b ELSE -((b - 1 - a) \div b)

\* The civil date of the day `days` after 1970-01-01 (proleptic Gregorian
\* calendar), with the year, month and day of month chrono's NaiveDate gives.
civil_from_days(days) ==
    LET z == days + 719468
        era == div_floor(z, 146097)
        doe == z - era * 146097
        yoe == (doe - doe \div 1460 + doe \div 36524 - doe \div 146096) \div 365
        doy == doe - (365 * yoe + yoe \div 4 - yoe \div 100)
        mp == (5 * doy + 2) \div 153
        d == doy - (153 * mp + 2) \div 5 + 1
        m == IF mp < 10 THEN mp + 3 ELSE mp - 9
        y == yoe + era * 400 + (IF m <= 2 THEN 1 ELSE 0)
    IN  [year |-> y, month |-> m, day |-> d]

\* {:02} and {:04} of a number that is not negative.
pad(n, width) ==
    LET str == ToString(n)
        zeros == [k \in 0..4 |-> SubSeq("0000", 1, k)]
    IN  IF Len(str) >= width THEN str ELSE zeros[width - Len(str)] \o str

\* DateTime::<Local>::from(ts).format("%Y-%m-%d %H:%M:%S"), the local time
\* being `offset` seconds east of UTC.
format_local(ts, offset) ==
    LET secs == timestamp(ts) + offset
        days == div_floor(secs, 86400)
        sod == secs - days * 86400
        date == civil_from_days(days)
    IN  pad(date.year, 4) \o "-" \o pad(date.month, 2) \o "-"
           \o pad(date.day, 2) \o " " \o pad(sod \div 3600, 2) \o ":"
           \o pad((sod % 3600) \div 60, 2) \o ":" \o pad(sod % 60, 2)

\* lib.rs: Display for HistEntry
Lib_HistEntry_fmt(entry, offset) ==
    format_local(entry.ts, offset) \o "   " \o join(entry.lines, "\n")

\* histfile.rs: HistEntry::ts_as_string and Display for HistEntry
ts_as_string(entry, offset) == format_local(entry.ts, offset)

HistEntry_fmt(entry, offset) ==
    ts_as_string(entry, offset) \o "   " \o entry.command

\* {:x} of a usize
HexDigits == <<"0", "1", "2", "3", "4", "5", "6", "7", "8", "9",
               "a", "b", "c", "d", "e", "f">>

RECURSIVE lower_hex(_)
lower_hex(n) ==
    IF n < 16 THEN HexDigits[n + 1]
    ELSE lower_hex(n \div 16) \o HexDigits[(n % 16) + 1]

\* A plausible slip: the index counts the matches, not the entries.
RECURSIVE batch_loop_counting_matches(_, _, _, _)
batch_loop_counting_matches(entries, idx, inc, exc) ==
    IF entries = <<>> THEN <<>>
    ELSE IF lib_matches(entries[1], inc, exc)
         THEN <<[idx |-> idx, entry |-> entries[1]]>>
                 \o batch_loop_counting_matches(Tail(entries), idx + 1, inc, exc)
         ELSE batch_loop_counting_matches(Tail(entries), idx, inc, exc)

\* println!("{:x} {}", idx, entry)
println(idx, entry, offset) ==
    lower_hex(idx) \o " " \o Lib_HistEntry_fmt(entry, offset) \o "\n"

\* The output of the println! calls of the loop, one after the other.
RECURSIVE println_all(_, _)
println_all(out, offset) ==
    IF out = <<>> THEN ""
    ELSE println(out[1].idx, out[1].entry, offset) \o println_all(Tail(out), offset)

\* The `for (idx, entry) in entries.iter().enumerate()` loop of actual_main,
\* from index idx (0-based) on: the (idx, entry) pairs it prints.
RECURSIVE batch_loop(_, _, _, _)
batch_loop(entries, idx, inc, exc) ==
    IF idx >= Len(entries) THEN <<>>
    ELSE (IF lib_matches(entries[idx + 1], inc, exc)
          THEN <<[idx |-> idx, entry |-> entries[idx + 1]]>>
          ELSE <<>>) \o batch_loop(entries, idx + 1, inc, exc)

(***************************************************************************)
(* interactive.rs: ListState and List of ratatui, Input of tui_input, and   *)
(* the App                                                                 *)
(***************************************************************************)

\* usize::MAX, as far as the model counts.
USIZE_MAX == 2147483647

saturating_add(i, n) == IF i > USIZE_MAX - n THEN USIZE_MAX ELSE i + n
saturating_sub(i, n) == IF i < n THEN 0 ELSE i - n

\* Option<usize>
NoIndex == [some |-> FALSE, val |-> 0]

\* ListState::default()
ListState_default == [offset |-> 0, selected |-> NoIndex]

\* ListState: select_last, select_next, select_previous, scroll_up_by,
\* scroll_down_by
select_last(st) == [st EXCEPT !.selected = Some(USIZE_MAX)]

select_next(st) ==
    [st EXCEPT !.selected =
        Some(IF @.some THEN saturating_add(@.val, 1) ELSE 0)]

select_previous(st) ==
    [st EXCEPT !.selected =
        Some(IF @.some THEN saturating_sub(@.val, 1) ELSE USIZE_MAX)]

scroll_up_by(st, amount) ==
    [st EXCEPT !.selected =
        Some(saturating_sub(IF @.some THEN @.val ELSE 0, amount))]

scroll_down_by(st, amount) ==
    [st EXCEPT !.selected =
        Some(saturating_add(IF @.some THEN @.val ELSE 0, amount))]

\* The List widget rendered with n items into an area of the given height
\* under a top border: what it makes of the selection.  An area without a
\* row for the items is left alone; no item, no selection; a selection
\* beyond the last item becomes the last item.
List_render(st, n, height) ==
    IF height <= 1 THEN st
    ELSE IF n = 0 THEN [offset |-> 0, selected |-> NoIndex]
    ELSE IF st.selected.some /\ st.selected.val >= n
         THEN [st EXCEPT !.selected = Some(n - 1)]
         ELSE st

\* FilteredList::default()
FilteredList_default ==
    [entries |-> <<>>, state |-> ListState_default, pagination_num_lines |-> 0]

\* FilteredList::new
FilteredList_new(entries) ==
    [entries |-> entries, state |-> select_last(ListState_default),
     pagination_num_lines |-> 1]

\* Option<HistEntry>
NoEntry == [some |-> FALSE, val |-> HistEntry("", "")]

\* A plausible slip: an index beyond the list gives the last entry.
get_selected_clamped(fl) ==
    IF fl.state.selected.some /\ fl.entries # <<>>
    THEN IF fl.state.selected.val < Len(fl.entries)
         THEN Some(fl.entries[fl.state.selected.val + 1])
         ELSE Some(fl.entries[Len(fl.entries)])
    ELSE NoEntry

\* FilteredList::get_selected
get_selected(fl) ==
    IF fl.state.selected.some /\ fl.state.selected.val < Len(fl.entries)
    THEN Some(fl.entries[fl.state.selected.val + 1])
    ELSE NoEntry

\* FilteredList::render: the area is the screen but its last row.
FilteredList_render(fl, area_height) ==
    [fl EXCEPT !.pagination_num_lines = area_height \div 2,
               !.state = List_render(@, Len(fl.entries), area_height)]

\* Input::new: the cursor is behind the last character.
Input_new(value) == [value |-> value, cursor |-> Len(value)]

\* Input::handle_event on a key press: a character is inserted at the
\* cursor, Backspace deletes the character before it, Left moves it; the
\* other keys (Tab, a character with Ctrl) change nothing.
Input_handle_event(inp, key) ==
    CASE key.code = "Char" ->
            [value |-> SubSeq(inp.value, 1, inp.cursor) \o key.c
                          \o Drop(inp.value, inp.cursor),
             cursor |-> inp.cursor + 1]
      [] key.code = "Backspace" /\ inp.cursor > 0 ->
            [value |-> SubSeq(inp.value, 1, inp.cursor - 1)
                          \o Drop(inp.value, inp.cursor),
             cursor |-> inp.cursor - 1]
      [] key.code = "Left" /\ inp.cursor > 0 ->
            [inp EXCEPT !.cursor = @ - 1]
      [] OTHER -> inp

\* char::is_ascii_whitespace
is_ascii_whitespace(c) == c \in {" ", "\t", "\n", "\f", "\r"}

\* str::split_ascii_whitespace: the words of s, cur being the word begun.
RECURSIVE split_from(_, _, _)
split_from(s, cur, words) ==
    IF s = "" THEN (IF cur = "" THEN words ELSE Append(words, cur))
    ELSE IF is_ascii_whitespace(Ch(s, 1))
         THEN split_from(Drop(s, 1), "",
                         IF cur = "" THEN words ELSE Append(words, cur))
         ELSE split_from(Drop(s, 1), cur \o Ch(s, 1), words)

split_ascii_whitespace(s) == split_from(s, "", <<>>)

\* crate::raw_pattern_to_regex: the pattern is compiled as it stands, in the
\* case mode.
raw_pattern_to_regex(raw, case_mode) ==
    RegexBuilder_build(raw, case_mode = "Insensitive")

\* A plausible slip: the word is handed over as the user typed it.
get_include_regexes_magic(value, case_mode) ==
    LET words == split_ascii_whitespace(value)
    IN  [i \in 1..Len(words) |-> string_to_regex(words[i], case_mode)]

\* App::get_include_regexes
get_include_regexes(value, case_mode) ==
    LET words == split_ascii_whitespace(value)
    IN  [i \in 1..Len(words) |->
            raw_pattern_to_regex(escape(words[i]), case_mode)]

\* The entries of es, in order, that match.
RECURSIVE filter_matches(_, _, _)
filter_matches(es, include_re, exclude_re) ==
    IF es = <<>> THEN <<>>
    ELSE (IF matches(es[1], include_re, exclude_re) THEN <<es[1]>> ELSE <<>>)
            \o filter_matches(Tail(es), include_re, exclude_re)

\* A plausible slip: the search text is not applied.
do_filter_keeping_all(entries, value, case_mode) == FilteredList_new(entries)

\* App::do_filter
do_filter(entries, value, case_mode) ==
    FilteredList_new(
        filter_matches(entries, get_include_regexes(value, case_mode), <<>>))

\* Layout::vertical([Fill(1), Length(1)]): the height of the list area of a
\* screen of the given rows.
list_area_height(rows) == saturating_sub(rows, 1)

Continue == [return |-> FALSE, entry |-> NoEntry]
Return(maybe_entry) == [return |-> TRUE, entry |-> maybe_entry]

\* A plausible slip: Enter ends the loop only if an entry is selected.
handle_key_enter_needs_entry(app, key) ==
    IF key.code = "Enter" /\ get_selected(app.filtered_entries).some
    THEN [app |-> app, res |-> Return(get_selected(app.filtered_entries))]
    ELSE [app |-> app, res |-> Continue]

\* A plausible slip: every key the search text is handed filters anew.
handle_key_always_filtering(app, key) ==
    LET fl == app.filtered_entries
        moved(st) == [app |-> [app EXCEPT !.filtered_entries.state = st],
                      res |-> Continue]
    IN  CASE key.code = "Esc" -> [app |-> app, res |-> Return(NoEntry)]
          [] key.code = "Char" /\ key.c = "c" /\ key.ctrl ->
                [app |-> app, res |-> Return(NoEntry)]
          [] key.code = "Enter" ->
                [app |-> app, res |-> Return(get_selected(fl))]
          [] key.code = "Up" -> moved(select_previous(fl.state))
          [] key.code = "Down" -> moved(select_next(fl.state))
          [] key.code = "PageUp" ->
                moved(scroll_up_by(fl.state, fl.pagination_num_lines))
          [] key.code = "PageDown" ->
                moved(scroll_down_by(fl.state, fl.pagination_num_lines))
          [] OTHER ->
                LET edited == Input_handle_event(app.search_input, key)
                IN  [app |-> [app EXCEPT
                                !.search_input = edited,
                                !.filtered_entries =
                                    do_filter(app.entries, edited.value,
                                              app.case_mode)],
                     res |-> Continue]

\* App::handle_key: the App after the key, and HandleKeyRes.
handle_key(app, key) ==
    LET fl == app.filtered_entries
        moved(st) == [app |-> [app EXCEPT !.filtered_entries.state = st],
                      res |-> Continue]
    IN  CASE key.code = "Esc" -> [app |-> app, res |-> Return(NoEntry)]
          [] key.code = "Char" /\ key.c = "c" /\ key.ctrl ->
                [app |-> app, res |-> Return(NoEntry)]
          [] key.code = "Enter" ->
                [app |-> app, res |-> Return(get_selected(fl))]
          [] key.code = "Up" -> moved(select_previous(fl.state))
          [] key.code = "Down" -> moved(select_next(fl.state))
          [] key.code = "PageUp" ->
                moved(scroll_up_by(fl.state, fl.pagination_num_lines))
          [] key.code = "PageDown" ->
                moved(scroll_down_by(fl.state, fl.pagination_num_lines))
          [] OTHER ->
                LET edited == Input_handle_event(app.search_input, key)
                IN  [app |-> [app EXCEPT
                                !.search_input = edited,
                                !.filtered_entries =
                                    IF edited.value # app.search_input.value
                                    THEN do_filter(app.entries, edited.value,
                                                   app.case_mode)
                                    ELSE @],
                     res |-> Continue]

\* A plausible slip: the exclude patterns are left to the filter.
App_new_unfiltered(entries, inital_search, exclude_re, case_mode) ==
    [entries |-> entries,
     filtered_entries |->
        do_filter(filter_matches(entries, <<>>, exclude_re), inital_search,
                  case_mode),
     case_mode |-> case_mode,
     search_input |-> Input_new(inital_search)]

\* App::new
App_new(entries, inital_search, exclude_re, case_mode) ==
    LET master == filter_matches(entries, <<>>, exclude_re)
    IN  [entries |-> master,
         filtered_entries |-> do_filter(master, inital_search, case_mode),
         case_mode |-> case_mode,
         search_input |-> Input_new(inital_search)]

(***************************************************************************)
(* Inputs                                                                  *)
(***************************************************************************)

MaxLines == 4

\* The lines the history files of the model are made of.
LinePool == {"foo", "", " ", "#12", "#1262305001", "#1262305003",
             "#+1262305007"}

\* ParsedLine::parse of the two files, computed once for the lines of LinePool.
ParsedPool == [ln \in LinePool |-> ParsedLine_parse(ln)]
ParsedOf(ln) == IF ln \in LinePool THEN ParsedPool[ln] ELSE ParsedLine_parse(ln)

LibParsedPool == [ln \in LinePool |-> Lib_ParsedLine_parse(ln)]
LibParsedOf(ln) ==
    IF ln \in LinePool THEN LibParsedPool[ln] ELSE Lib_ParsedLine_parse(ln)

SeqsUpTo(S, n) == UNION {[1..k -> S] : k \in 0..n}

\* Every file of at most MaxLines lines of LinePool, with and without a
\* newline after its last line.
Files == {join(ls, "\n") \o nl : ls \in SeqsUpTo(LinePool, MaxLines),
                                 nl \in {"", "\n"}}

MaxReadLines == 3

\* The files read from a reader that may fail.
ReadFiles == {join(ls, "\n") \o "\n" :
                ls \in SeqsUpTo({"foo", "", "#1262305001", "#1262305003"},
                                MaxReadLines)}

\* The lines ParsedLine::parse is tried on: a prefix, a number, a suffix.
PrefixPool == {"", "#", " #", "##", "#+", "#-", "# ", "f"}
NumberPool == {"", "0", "1234", "1262303999", "1262304000", "01262304000",
               "1262305001", "8210266876799", "8210266876800",
               "9223372036854775807", "9223372036854775808"}
SuffixPool == {"", " ", "a"}
ParseLinePool == {p \o n \o s : p \in PrefixPool, n \in NumberPool,
                                s \in SuffixPool}

MaxEntries == 5

\* The entries dedup_entries is tried on.
DedupPool == {HistEntry(ts, cmd) : ts \in {"1262304000", "1262304300"},
                                   cmd \in {"ls -la", "rm foobar"}}

MaxPatterns == 2

\* The entry lists the matcher is tried on, each entry by its lines, and the
\* case mode of the run.
MatchLists ==
    {[entries |-> <<>>, case |-> "Sensitive"],
     [entries |-> << <<"foo">>, <<"Foo bar">>, <<"ls", "is foo">>, <<"bar">> >>,
      case |-> "Sensitive"],
     [entries |-> << <<"ls B", "bar">>, <<"">>, <<"FOO">> >>,
      case |-> "Insensitive"]}

\* The raw patterns the matcher is tried with.
MatchPatterns == {"foo", "bar", "/s.[bf]/"}

MaxRaws == 3

\* The raw patterns process_patterns is tried on, and the exclude lists.
ProcessPool == {"foo", "[", "/s.[bf]/", "/[/", "/+/"}
ExcludeLists == {<<>>, <<"bar">>, <<"bar", "/[/">>, <<"/+/", "/[/">>}

\* The entries the batch output is tried on: eighteen, so that the index has
\* the digits a to f and two digits; entries of several lines; timestamps
\* around the end of a day, of a month and of a leap February.
BatchEntries ==
    [k \in 1..18 |->
        LibEntry(CASE k = 2 -> "1330559999"
                   [] k = 11 -> "1709251199"
                   [] k = 17 -> "1262305001"
                   [] k = 18 -> "1893455999"
                   [] OTHER -> default_ts,
                 CASE k = 1 -> <<"foo">>
                   [] k = 2 -> <<"ls", "is foo">>
                   [] k = 11 -> <<"foo bar">>
                   [] k = 17 -> <<"s.f foo", "", "bar">>
                   [] k = 18 -> <<"bar">>
                   [] OTHER -> <<"x">>)]

\* The offsets of the local time zone the output is tried in.
LocalOffsets == {0, -18000, 19800}

MaxSearch == 3
MaxIndex == 6

\* The arguments of run_interactive, and the rows of the terminal.
AppEntries == <<HistEntry("1262304000", "foo"),
                HistEntry("1262305001", "Foo bar"),
                HistEntry("1262305003", "ls\n/f.o/"),
                HistEntry("1262305005", "bar f.o"),
                HistEntry("1262305007", "fxo")>>
AppInputs ==
    [entries : {<<>>, AppEntries},
     inital_search : {"", "/f.o/"},
     exclude_re : {<<>>, <<RegexBuilder_build("bar", FALSE)>>},
     case_mode : {"Sensitive", "Insensitive"},
     rows : {2, 5}]

\* The events crossterm hands to the loop.
KeyPress(code) ==
    [kind |-> "Key", press |-> TRUE, code |-> code, c |-> "", ctrl |-> FALSE]
CharPress(c, ctrl) ==
    [kind |-> "Key", press |-> TRUE, code |-> "Char", c |-> c, ctrl |-> ctrl]
NoEvent == [kind |-> "None", press |-> FALSE, code |-> "", c |-> "", ctrl |-> FALSE]
Events ==
    {KeyPress(code) : code \in {"Esc", "Enter", "Up", "Down", "PageUp",
                                "PageDown", "Backspace", "Tab"}}
    \cup {CharPress(c, FALSE) : c \in {"o", " ", "c"}}
    \cup {CharPress("c", TRUE)}
    \cup {[KeyPress("Esc") EXCEPT !.press = FALSE],
          [KeyPress("Enter") EXCEPT !.press = FALSE]}
    \cup {[NoEvent EXCEPT !.kind = k] : k \in {"Paste", "Resize"}}

\* The events of the loop that edit the search text or leave it alone.
FrameEvents ==
    {KeyPress(code) : code \in {"Enter", "Up", "Down", "PageUp", "PageDown",
                                "Backspace", "Tab", "Left"}}
    \cup {CharPress("o", FALSE)}
    \cup {[KeyPress("Up") EXCEPT !.press = FALSE],
          [CharPress("o", FALSE) EXCEPT !.press = FALSE]}
    \cup {[NoEvent EXCEPT !.kind = k] : k \in {"Paste", "Resize"}}

\* The raw patterns and the texts string_to_regex is tried on.
RawPool == {"", "/", "//", "/fo.o", "fo.o/", "/fo.o/", "/abc/f[o]+.ar/",
            "asd[12]", "/asd[12]/", "/^asd/", "asDf", "/asDf/", "/[/", "/a+?/",
            "a+b", "/+/"}
TextPool == {"", "/", "/fo.o", "/Fo.o", "/foxo", "fo.o/", "fo.o", "foxo",
             "Xfo.oX", "abc/foobar", "abc/fXar", "abc_foobar", "asd[12]",
             "aSd[12]", "asd1", "_asd2_", "asd__", "_asd__", "XasdfX", "XasDfX",
             "a+b", "aab", "ls\nasd"}

(***************************************************************************)
(* Actions                                                                 *)
(***************************************************************************)

ParseIdle ==
    /\ input = "" /\ rest = "" /\ line_no = 0 /\ line = "" /\ pc = "idle"
    /\ lines_read = <<>>
    /\ h_state = "NoTimestamps" /\ h_cur_ts = default_ts /\ h_cur_lines = <<>>
    /\ h_ret = <<>>
    /\ l_state = "NoTimestamps" /\ l_cur_entry = with_ts(default_ts)
    /\ l_ret = <<>>
    /\ h_result = NotParsed /\ l_result = NotParsed

LineIdle == pl_line = "" /\ pl_hist = NotRun /\ pl_lib = NotRun

DedupIdle ==
    d_entries = <<>> /\ d_once = <<>> /\ d_twice = <<>> /\ d_pc = "idle"

MatchIdle ==
    /\ m_entries = <<>> /\ m_lib_entries = <<>>
    /\ m_include = <<>> /\ m_exclude = <<>> /\ m_extra = ""
    /\ m_case = "Sensitive"
    /\ m_inc_re = <<>> /\ m_exc_re = <<>> /\ m_extra_re = <<>>
    /\ m_base = <<>> /\ m_more_inc = <<>> /\ m_more_exc = <<>> /\ m_out = <<>>
    /\ m_tz = 0 /\ m_stdout = ""
    /\ m_pc = "idle"

NotCompiled == [ok |-> FALSE, src |-> "", ci |-> FALSE, prog |-> <<>>]

PatternIdle ==
    /\ p_raw = "" /\ p_case = "Sensitive" /\ p_text = ""
    /\ p_re = NotCompiled /\ p_match = FALSE /\ p_pc = "idle"

NotProcessed == [ok |-> FALSE, res |-> <<>>, err |-> "", cause |-> ""]

ProcessIdle ==
    /\ pp_include = <<>> /\ pp_exclude = <<>> /\ pp_case = "Sensitive"
    /\ pp_inc = NotProcessed /\ pp_exc = NotProcessed /\ pp_pc = "idle"

CoreIdle == ParseIdle /\ LineIdle /\ DedupIdle /\ MatchIdle /\ PatternIdle

\* run has not returned: Ok with the selection, or the error of a draw or of
\* an event read.
NotReturned == [ok |-> FALSE, entry |-> NoEntry, err |-> ""]

\* No App: before App::new, and after run, which consumes it.
NoApp ==
    /\ a_entries = <<>> /\ a_filtered = FilteredList_default
    /\ a_case = "Sensitive" /\ a_search = Input_new("")

AppIdle ==
    /\ a_in = [entries |-> <<>>, inital_search |-> "", exclude_re |-> <<>>,
               case_mode |-> "Sensitive", rows |-> 0]
    /\ NoApp
    /\ a_event = NoEvent /\ a_raw = FALSE /\ a_restores = 0
    /\ a_result = NotReturned /\ a_pc = "idle"

WrapIdle ==
    /\ w_entry = HistEntry("", "") /\ w_tz = 0 /\ w_lines = <<>> /\ w_pc = "idle"

RestIdle == ProcessIdle /\ AppIdle /\ WrapIdle

\* Both parse_history_file have set up their locals and the reader.
ParseInit ==
    /\ input \in Files
    /\ rest = input
    /\ line_no = 0
    /\ line = ""
    /\ lines_read = <<>>
    /\ pc = "reading"
    /\ h_state = "NoTimestamps"
    /\ h_cur_ts = default_ts
    /\ h_cur_lines = <<>>
    /\ h_ret = <<>>
    /\ l_state = "NoTimestamps"
    /\ l_cur_entry = with_ts(default_ts)
    /\ l_ret = <<>>
    /\ h_result = NotParsed
    /\ l_result = NotParsed
    /\ LineIdle /\ DedupIdle /\ MatchIdle /\ PatternIdle /\ RestIdle

HState == [state |-> h_state, cur_ts |-> h_cur_ts, cur_lines |-> h_cur_lines,
           ret |-> h_ret]
LState == [state |-> l_state, cur_entry |-> l_cur_entry, ret |-> l_ret]

\* One iteration of the `for` loop of both parsers, on the next line.
ParseLine ==
    /\ pc = "reading"
    /\ rest # ""
    /\ \E r \in {read_line(rest)} :
       LET h == parse_step(HState, ParsedOf(r.line))
           l == lib_parse_step(LState, LibParsedOf(r.line))
       IN  /\ line' = r.line
           /\ lines_read' = Append(lines_read, r.line)
           /\ rest' = r.rest
           /\ line_no' = line_no + 1
           /\ h_state' = h.state
           /\ h_cur_ts' = h.cur_ts
           /\ h_cur_lines' = h.cur_lines
           /\ h_ret' = h.ret
           /\ l_state' = l.state
           /\ l_cur_entry' = l.cur_entry
           /\ l_ret' = l.ret
    /\ UNCHANGED <<input, pc, h_result, l_result, lineVars, dedupVars, matchVars,
                   patternVars, restVars>>

\* The reader is exhausted: the code after the loop, and the return.
ParseFinish ==
    /\ pc = "reading"
    /\ rest = ""
    /\ pc' = "done"
    /\ h_ret' = parse_finish(HState)
    /\ l_ret' = lib_parse_finish(LState)
    /\ h_result' = Parsed(h_ret')
    /\ l_result' = Parsed(l_ret')
    /\ UNCHANGED <<input, rest, line_no, line, lines_read, h_state, h_cur_ts,
                   h_cur_lines, l_state, l_cur_entry, lineVars, dedupVars,
                   matchVars, patternVars,
                   restVars>>

ParseNext == ParseLine \/ ParseFinish

SpecParse == ParseInit /\ [][ParseNext]_vars

\* The same loop on a reader that may fail: instead of the next line, or of
\* the end of the file, it yields an error, and `?` returns it.
ReadInit ==
    /\ ParseInit
    /\ input \in ReadFiles

ReadError ==
    /\ pc = "reading"
    /\ pc' = "failed"
    /\ h_result' = read_error(line_no)
    /\ l_result' = read_error(line_no)
    /\ UNCHANGED <<input, rest, line_no, line, lines_read, h_state, h_cur_ts,
                   h_cur_lines, h_ret, l_state, l_cur_entry, l_ret, lineVars,
                   dedupVars, matchVars, patternVars, restVars>>

ReadNext == ParseLine \/ ParseFinish \/ ReadError

SpecRead == ReadInit /\ [][ReadNext]_vars

\* The loop on a reader that does not fail: the function is sequential code,
\* so its next step is taken whenever there is one.
SpecTerminate == ReadInit /\ [][ParseNext]_vars /\ WF_vars(ParseNext)

\* ParsedLine::parse of the two files, on one line.
LineInit ==
    /\ ParseIdle
    /\ pl_line \in ParseLinePool
    /\ pl_hist = NotRun
    /\ pl_lib = NotRun
    /\ DedupIdle /\ MatchIdle /\ PatternIdle /\ RestIdle

ClassifyHistfile ==
    /\ pl_hist = NotRun
    /\ pl_hist' = ParsedLine_parse(pl_line)
    /\ UNCHANGED <<parseVars, pl_line, pl_lib, dedupVars, matchVars, patternVars,
                   restVars>>

ClassifyLib ==
    /\ pl_lib = NotRun
    /\ pl_lib' = Lib_ParsedLine_parse(pl_line)
    /\ UNCHANGED <<parseVars, pl_line, pl_hist, dedupVars, matchVars, patternVars,
                   restVars>>

LineNext == ClassifyHistfile \/ ClassifyLib

SpecLine == LineInit /\ [][LineNext]_vars

\* dedup_entries, applied once and then to its own result.
DedupInit ==
    /\ ParseIdle /\ LineIdle /\ MatchIdle /\ PatternIdle /\ RestIdle
    /\ d_entries \in SeqsUpTo(DedupPool, MaxEntries)
    /\ d_once = <<>>
    /\ d_twice = <<>>
    /\ d_pc = "start"

Dedup ==
    /\ d_pc = "start"
    /\ d_once' = dedup_entries(d_entries)
    /\ d_pc' = "once"
    /\ UNCHANGED <<d_entries, d_twice, parseVars, lineVars, matchVars, patternVars,
                   restVars>>

DedupAgain ==
    /\ d_pc = "once"
    /\ d_twice' = dedup_entries(d_once)
    /\ d_pc' = "twice"
    /\ UNCHANGED <<d_entries, d_once, parseVars, lineVars, matchVars, patternVars,
                   restVars>>

DedupNext == Dedup \/ DedupAgain

SpecDedup == DedupInit /\ [][DedupNext]_vars

\* HistEntry::matches over a list of entries, and the batch loop of main.rs.
MatchInit ==
    /\ ParseIdle /\ LineIdle /\ DedupIdle /\ PatternIdle /\ RestIdle
    /\ \E ls \in MatchLists :
          /\ m_entries = [k \in 1..Len(ls.entries) |->
                            HistEntry(default_ts, join(ls.entries[k], "\n"))]
          /\ m_lib_entries = [k \in 1..Len(ls.entries) |->
                                LibEntry(default_ts, ls.entries[k])]
          /\ m_case = ls.case
    /\ m_include \in SeqsUpTo(MatchPatterns, MaxPatterns)
    /\ m_exclude \in SeqsUpTo(MatchPatterns, MaxPatterns)
    /\ m_extra \in MatchPatterns
    /\ m_inc_re = <<>> /\ m_exc_re = <<>> /\ m_extra_re = <<>>
    /\ m_base = <<>> /\ m_more_inc = <<>> /\ m_more_exc = <<>> /\ m_out = <<>>
    /\ m_tz = 0 /\ m_stdout = ""
    /\ m_pc = "start"

\* actual_main: the patterns are compiled, and the first error ends the run.
CompilePatterns ==
    /\ m_pc = "start"
    /\ LET inc == process_patterns(m_include, m_case)
           exc == process_patterns(m_exclude, m_case)
           extra == process_patterns(<<m_extra>>, m_case)
       IN  /\ m_inc_re' = inc.res
           /\ m_exc_re' = exc.res
           /\ m_extra_re' = extra.res
           /\ m_pc' = IF inc.ok /\ exc.ok /\ extra.ok THEN "compiled" ELSE "failed"
    /\ UNCHANGED <<matchIn, m_base, m_more_inc, m_more_exc, m_out, m_stdout, parseVars,
                   lineVars, dedupVars, patternVars,
                   restVars>>

MatchResults(inc, exc) ==
    [k \in 1..Len(m_entries) |-> matches(m_entries[k], inc, exc)]

ApplyMatches ==
    /\ m_pc = "compiled"
    /\ m_base' = MatchResults(m_inc_re, m_exc_re)
    /\ m_pc' = "base"
    /\ UNCHANGED <<matchIn, matchRe, m_more_inc, m_more_exc, m_out, m_stdout, parseVars,
                   lineVars, dedupVars, patternVars,
                   restVars>>

ApplyMatchesMoreInclude ==
    /\ m_pc = "base"
    /\ m_more_inc' = MatchResults(m_inc_re \o m_extra_re, m_exc_re)
    /\ m_pc' = "inc"
    /\ UNCHANGED <<matchIn, matchRe, m_base, m_more_exc, m_out, m_stdout, parseVars,
                   lineVars, dedupVars, patternVars,
                   restVars>>

ApplyMatchesMoreExclude ==
    /\ m_pc = "inc"
    /\ m_more_exc' = MatchResults(m_inc_re, m_exc_re \o m_extra_re)
    /\ m_pc' = "exc"
    /\ UNCHANGED <<matchIn, matchRe, m_base, m_more_inc, m_out, m_stdout, parseVars,
                   lineVars, dedupVars, patternVars,
                   restVars>>

\* actual_main: the loop over the entries.
BatchLoop ==
    /\ m_pc = "exc"
    /\ m_out' = batch_loop(m_lib_entries, 0, m_inc_re, m_exc_re)
    /\ m_stdout' = println_all(m_out', m_tz)
    /\ m_pc' = "done"
    /\ UNCHANGED <<matchIn, matchRe, m_base, m_more_inc, m_more_exc, parseVars,
                   lineVars, dedupVars, patternVars,
                   restVars>>

\* The batch loop on the longer list, in several time zones.
BatchInit ==
    /\ ParseIdle /\ LineIdle /\ DedupIdle /\ PatternIdle /\ RestIdle
    /\ m_lib_entries = BatchEntries
    /\ m_entries = [k \in 1..Len(BatchEntries) |->
                      HistEntry(BatchEntries[k].ts, join(BatchEntries[k].lines, "\n"))]
    /\ m_case \in {"Sensitive", "Insensitive"}
    /\ m_include \in SeqsUpTo(MatchPatterns, MaxPatterns)
    /\ m_exclude \in SeqsUpTo(MatchPatterns, MaxPatterns)
    /\ m_extra = "foo"
    /\ m_tz \in LocalOffsets
    /\ m_inc_re = <<>> /\ m_exc_re = <<>> /\ m_extra_re = <<>>
    /\ m_base = <<>> /\ m_more_inc = <<>> /\ m_more_exc = <<>> /\ m_out = <<>>
    /\ m_stdout = ""
    /\ m_pc = "start"

MatchNext ==
    \/ CompilePatterns
    \/ ApplyMatches
    \/ ApplyMatchesMoreInclude
    \/ ApplyMatchesMoreExclude
    \/ BatchLoop

SpecMatch == MatchInit /\ [][MatchNext]_vars

SpecBatch == BatchInit /\ [][MatchNext]_vars

\* string_to_regex on one raw pattern, and the compiled pattern on one text.
PatternInit ==
    /\ ParseIdle /\ LineIdle /\ DedupIdle /\ MatchIdle /\ RestIdle
    /\ p_raw \in RawPool
    /\ p_case \in {"Sensitive", "Insensitive"}
    /\ p_text \in TextPool
    /\ p_re = NotCompiled
    /\ p_match = FALSE
    /\ p_pc = "start"

CompilePattern ==
    /\ p_pc = "start"
    /\ p_re' = string_to_regex(p_raw, p_case)
    /\ p_pc' = IF p_re'.ok THEN "compiled" ELSE "failed"
    /\ UNCHANGED <<p_raw, p_case, p_text, p_match, parseVars, lineVars,
                   dedupVars, matchVars,
                   restVars>>

MatchPattern ==
    /\ p_pc = "compiled"
    /\ p_match' = is_match(p_re, p_text)
    /\ p_pc' = "matched"
    /\ UNCHANGED <<p_raw, p_case, p_text, p_re, parseVars, lineVars, dedupVars,
                   matchVars,
                   restVars>>

PatternNext == CompilePattern \/ MatchPattern

SpecPattern == PatternInit /\ [][PatternNext]_vars

\* actual_main, lines 59-61: the include patterns, then the exclude patterns
\* are compiled; `?` returns the first error.
ProcessInit ==
    /\ CoreIdle /\ AppIdle /\ WrapIdle
    /\ pp_include \in SeqsUpTo(ProcessPool, MaxRaws)
    /\ pp_exclude \in ExcludeLists
    /\ pp_case \in {"Sensitive", "Insensitive"}
    /\ pp_inc = NotProcessed
    /\ pp_exc = NotProcessed
    /\ pp_pc = "start"

ProcessInclude ==
    /\ pp_pc = "start"
    /\ pp_inc' = process_patterns(pp_include, pp_case)
    /\ pp_pc' = IF pp_inc'.ok THEN "included" ELSE "failed"
    /\ UNCHANGED <<pp_include, pp_exclude, pp_case, pp_exc, coreVars, appVars,
                   wrapVars>>

ProcessExclude ==
    /\ pp_pc = "included"
    /\ pp_exc' = process_patterns(pp_exclude, pp_case)
    /\ pp_pc' = IF pp_exc'.ok THEN "compiled" ELSE "failed"
    /\ UNCHANGED <<pp_include, pp_exclude, pp_case, pp_inc, coreVars, appVars,
                   wrapVars>>

ProcessNext == ProcessInclude \/ ProcessExclude

SpecProcess == ProcessInit /\ [][ProcessNext]_vars

\* run_interactive is called.
AppInit ==
    /\ CoreIdle /\ ProcessIdle /\ WrapIdle
    /\ a_in \in AppInputs
    /\ NoApp
    /\ a_event = NoEvent
    /\ a_raw = FALSE
    /\ a_restores = 0
    /\ a_result = NotReturned
    /\ a_pc = "start"

TheApp == [entries |-> a_entries, filtered_entries |-> a_filtered,
           case_mode |-> a_case, search_input |-> a_search]

SetApp(app) ==
    /\ a_entries' = app.entries
    /\ a_filtered' = app.filtered_entries
    /\ a_case' = app.case_mode
    /\ a_search' = app.search_input

\* A plausible slip: the terminal is restored before `return Ok(..)` only.
Leave_restoring_on_return(result, pc_after) ==
    /\ a_result' = result
    /\ a_raw' = ~result.ok
    /\ a_restores' = IF result.ok THEN a_restores + 1 ELSE a_restores
    /\ a_pc' = pc_after
    /\ a_entries' = <<>>
    /\ a_filtered' = FilteredList_default
    /\ a_case' = "Sensitive"
    /\ a_search' = Input_new("")

\* run returns: the DropGuard calls ratatui::restore(), the App is gone.
Leave(result, pc_after) ==
    /\ a_result' = result
    /\ a_raw' = FALSE
    /\ a_restores' = a_restores + 1
    /\ a_pc' = pc_after
    /\ a_entries' = <<>>
    /\ a_filtered' = FilteredList_default
    /\ a_case' = "Sensitive"
    /\ a_search' = Input_new("")

\* run_interactive: App::new
AppNew ==
    /\ a_pc = "start"
    /\ SetApp(App_new(a_in.entries, a_in.inital_search, a_in.exclude_re,
                      a_in.case_mode))
    /\ a_pc' = "constructed"
    /\ UNCHANGED <<a_in, a_event, a_raw, a_restores, a_result, coreVars,
                   processVars, wrapVars>>

\* App::run up to the loop: ratatui::init() and the guard.
RunInit ==
    /\ a_pc = "constructed"
    /\ a_raw' = TRUE
    /\ a_pc' = "draw"
    /\ UNCHANGED <<a_in, a_entries, a_filtered, a_case, a_search, a_event,
                   a_restores, a_result, coreVars, processVars, wrapVars>>

\* terminal.draw(|frame| self.render(frame))
Draw ==
    /\ a_pc = "draw"
    /\ a_filtered' = FilteredList_render(a_filtered, list_area_height(a_in.rows))
    /\ a_pc' = "read"
    /\ UNCHANGED <<a_in, a_entries, a_case, a_search, a_event, a_raw,
                   a_restores, a_result, coreVars, processVars, wrapVars>>

\* terminal.draw(..)? with an error
DrawFails ==
    /\ a_pc = "draw"
    /\ Leave([ok |-> FALSE, entry |-> NoEntry, err |-> "draw"], "failed")
    /\ UNCHANGED <<a_in, a_event, coreVars, processVars, wrapVars>>

\* The match on the event that event::read() has yielded.
HandleEvent(ev) ==
    /\ (ev.code = "Char" /\ ~ev.ctrl) => Len(a_search.value) < MaxSearch
    /\ ev.code \in {"Up", "Down", "PageUp", "PageDown"} =>
          LET selected == a_filtered.state.selected
          IN  \/ ~selected.some
              \/ selected.val < MaxIndex
              \/ selected.val = USIZE_MAX
    /\ a_event' = ev
    /\ IF ev.kind = "Key" /\ ev.press
       THEN LET handled == handle_key(TheApp, ev)
            IN  IF handled.res.return
                THEN Leave([ok |-> TRUE, entry |-> handled.res.entry,
                            err |-> ""], "returned")
                ELSE /\ SetApp(handled.app)
                     /\ a_pc' = "draw"
                     /\ UNCHANGED <<a_raw, a_restores, a_result>>
       ELSE /\ a_pc' = "draw"
            /\ UNCHANGED <<a_entries, a_filtered, a_case, a_search,
                           a_raw, a_restores, a_result>>
    /\ UNCHANGED <<a_in, coreVars, processVars, wrapVars>>

\* event::read()? and the match on the event
ReadEvent ==
    /\ a_pc = "read"
    /\ \E ev \in Events : HandleEvent(ev)

\* event::read()? with an error
ReadFails ==
    /\ a_pc = "read"
    /\ Leave([ok |-> FALSE, entry |-> NoEntry, err |-> "read"], "failed")
    /\ UNCHANGED <<a_in, a_event, coreVars, processVars, wrapVars>>

AppNext == AppNew \/ RunInit \/ Draw \/ DrawFails \/ ReadEvent \/ ReadFails

SpecApp == AppInit /\ [][AppNext]_vars

\* The same loop with the keys that move the selection and the cursor, the
\* keys the search text takes and the events that are ignored.
ReadFrameEvent ==
    /\ a_pc = "read"
    /\ \E ev \in FrameEvents : HandleEvent(ev)

FrameNext ==
    AppNew \/ RunInit \/ Draw \/ DrawFails \/ ReadFrameEvent \/ ReadFails

SpecFrame == AppInit /\ [][FrameNext]_vars

(***************************************************************************)
(* interactive.rs: From<HistEntry> for HistEntryWrapper                    *)
(***************************************************************************)

\* str::lines: the text is cut after each "\n"; the "\n", and a "\r" right
\* before it, are no part of the line. An empty text has no line, and a text
\* ending in "\n" has no line after that "\n".
RECURSIVE str_lines(_)
str_lines(s) ==
    IF s = "" THEN <<>>
    ELSE LET nl == FindNewline(s, 1)
         IN  IF nl = 0 THEN <<s>>
             ELSE LET raw == SubSeq(s, 1, nl - 1)
                      cr == strip_suffix(raw, "\r")
                  IN  <<IF cr.some THEN cr.val ELSE raw>> \o str_lines(Drop(s, nl))

RECURSIVE repeat_n(_, _)
repeat_n(c, n) == IF n = 0 THEN "" ELSE c \o repeat_n(c, n - 1)

\* The loop over entry.command.lines() with `lines` so far.
RECURSIVE wrap_lines(_, _, _, _)
wrap_lines(todo, ts_str, indent_spaces, lines) ==
    IF todo = <<>> THEN lines
    ELSE wrap_lines(Tail(todo), ts_str, indent_spaces,
                    Append(lines, IF lines = <<>>
                                  THEN ts_str \o " " \o Head(todo)
                                  ELSE indent_spaces \o Head(todo)))

HistEntryWrapper_from(entry, offset) ==
    LET ts_str == ts_as_string(entry, offset)
        indent == Len(ts_str) + 1
        indent_spaces == repeat_n(" ", indent)
    IN  [orig |-> entry,
         lines |-> wrap_lines(str_lines(entry.command), ts_str, indent_spaces,
                              <<>>)]

\* Command texts as histfile.rs parse_history_file builds them: the lines
\* between two timestamps joined by "\n", each line possibly empty.
WrapCommands ==
    {"", "foo", "foo\nbar", "\nfoo\n", "a\n\nb", "\n", "foo\n", "\nfoo",
     "foo\nbar\nbaz", " ", "a\r\nb", "foo\r"}

WrapTimes == {default_ts, "1262305001", "1330559999", "1709251199"}

WrapInit ==
    /\ CoreIdle /\ ProcessIdle /\ AppIdle
    /\ w_entry \in {HistEntry(ts, c) : ts \in WrapTimes, c \in WrapCommands}
    /\ w_tz \in LocalOffsets
    /\ w_lines = <<>>
    /\ w_pc = "start"

Wrap ==
    /\ w_pc = "start"
    /\ w_lines' = HistEntryWrapper_from(w_entry, w_tz).lines
    /\ w_pc' = "wrapped"
    /\ UNCHANGED <<w_entry, w_tz, coreVars, processVars, appVars>>

WrapNext == Wrap

SpecWrap == WrapInit /\ [][WrapNext]_vars

(***************************************************************************)
(* The lines of a file, stated from the positions of its newlines (what    *)
(* the properties below compare the parsers with).                         *)
(***************************************************************************)

NewlinesOf(s) == {i \in 1..Len(s) : Ch(s, i) = "\n"}

\* Where the lines of s start: at 1 and after every newline, within s.
LineStarts(s) == {b \in {1} \cup {i + 1 : i \in NewlinesOf(s)} : b <= Len(s)}

KthSmallest(S, k) == CHOOSE x \in S : Cardinality({y \in S : y < x}) = k - 1

LineFrom(s, b) ==
    LET after == {i \in NewlinesOf(s) : i >= b}
    IN  IF after = {} THEN SubSeq(s, b, Len(s))
        ELSE LET e == CHOOSE i \in after : \A j \in after : i <= j
                 raw == SubSeq(s, b, e - 1)
             IN  IF raw # "" /\ Ch(raw, Len(raw)) = "\r"
                 THEN SubSeq(raw, 1, Len(raw) - 1)
                 ELSE raw

FileLines(s) ==
    [k \in 1..Cardinality(LineStarts(s)) |->
        LineFrom(s, KthSmallest(LineStarts(s), k))]

IsTimestampLine(ln) == ParsedOf(ln).kind = "Timestamp"
TimestampOf(ln) == ParsedOf(ln).ts

NoTimestampLine(s) ==
    \A k \in 1..Len(FileLines(s)) : ~IsTimestampLine(FileLines(s)[k])

IsBlank(ln) == \A i \in 1..Len(ln) : Ch(ln, i) \in {" ", "\t", "\r", "\f"}

NotEmptyLine(ln) == ln # ""
NotBlankLine(ln) == ~IsBlank(ln)

SentinelEntries(ls) == [k \in 1..Len(ls) |-> HistEntry("1262304000", ls[k])]
LibSentinelEntries(ls) == [k \in 1..Len(ls) |-> LibEntry("1262304000", <<ls[k]>>)]

(***************************************************************************)
(* C1                                                                      *)
(***************************************************************************)

\* C1, as stated: for an input without a timestamp line, parse_history_file
\* returns one sentinel-stamped entry per non-empty line, in file order.
\* (Refuted: histfile.rs returns an entry for an empty line as well, and
\* lib.rs returns none for a non-empty line of whitespace.)
C1_OneEntryPerNonEmptyLine ==
    (pc = "done" /\ NoTimestampLine(input)) =>
        /\ h_ret = SentinelEntries(SelectSeq(FileLines(input), NotEmptyLine))
        /\ l_ret = LibSentinelEntries(SelectSeq(FileLines(input), NotEmptyLine))

\* C1, amended: for an input none of whose lines is classified as Timestamp,
\* the histfile.rs parser returns one sentinel-stamped entry per line (empty
\* and whitespace-only lines included) and the lib.rs parser one per line that
\* is neither empty nor whitespace-only, in file order, with or without a
\* newline after the last line.
C1_OneEntryPerLine ==
    (pc = "done" /\ NoTimestampLine(input)) =>
        /\ h_ret = SentinelEntries(FileLines(input))
        /\ l_ret = LibSentinelEntries(SelectSeq(FileLines(input), NotBlankLine))

\* C1's case: a file of three lines without a timestamp, one of them empty,
\* the last one without a newline, has been parsed.
C1_Witness ==
    /\ pc = "done"
    /\ NoTimestampLine(input)
    /\ Len(FileLines(input)) = 3
    /\ Ch(input, Len(input)) # "\n"
    /\ Len(h_ret) = 3
    /\ Len(l_ret) = 2

(***************************************************************************)
(* C2                                                                      *)
(***************************************************************************)

\* `#`, then one or more ASCII digits and nothing else, of a value that is at
\* least 1262304000.
IsMarkerLine(ln) ==
    /\ Len(ln) >= 2
    /\ Ch(ln, 1) = "#"
    /\ \A i \in 2..Len(ln) : Ch(ln, i) \in Digits
    /\ DecGeq(StripZeros(Drop(ln, 1)), "1262304000")

\* C2: ParsedLine::parse gives Timestamp exactly for `#` followed by nothing but
\* digits of a value >= 1262304000, and Command with the whole line otherwise.
\* (Refuted by the code: `#+1262304000` is a Timestamp.)
C2_TimestampIffHashDigits ==
    pl_hist # NotRun =>
        pl_hist = IF IsMarkerLine(pl_line)
                  THEN Timestamp(StripZeros(Drop(pl_line, 1)))
                  ELSE Command(pl_line)

(***************************************************************************)
(* C3                                                                      *)
(***************************************************************************)

\* A run of timestamp lines i..j of ls that no timestamp line precedes,
\* followed by a command line.
IsTimestampRun(ls, i, j) ==
    /\ 1 <= i /\ i < j /\ j < Len(ls)
    /\ \A k \in i..j : IsTimestampLine(ls[k])
    /\ (i = 1 \/ ~IsTimestampLine(ls[i - 1]))
    /\ ~IsTimestampLine(ls[j + 1])

\* C3: a Timestamp line read in state LastWasTimestamp changes neither the
\* remembered timestamp nor the state, the gathered lines or the entries; and
\* the entry that follows a run of two or more timestamp lines carries the
\* first timestamp of the run.
C3_SecondTimestampDiscarded ==
    /\ [][(/\ pc = "reading"
           /\ line_no' = line_no + 1
           /\ h_state = "LastWasTimestamp"
           /\ ParsedLine_parse(line').kind = "Timestamp")
          => (/\ h_cur_ts' = h_cur_ts
              /\ h_state' = h_state
              /\ h_cur_lines' = h_cur_lines
              /\ h_ret' = h_ret)]_vars
    /\ [](pc = "done" =>
            LET ls == FileLines(input)
            IN  \A i, j \in 1..Len(ls) :
                    IsTimestampRun(ls, i, j) =>
                        \E k \in 1..Len(h_ret) :
                            /\ h_ret[k].ts = TimestampOf(ls[i])
                            /\ strip_prefix(h_ret[k].command, ls[j + 1]).some)

\* C3's case: two timestamp lines in a row, then a command, have been parsed
\* into one entry carrying the first timestamp.
C3_Witness ==
    /\ pc = "done"
    /\ input = "#1262305001\n#1262305003\nfoo"
    /\ h_ret = <<HistEntry("1262305001", "foo")>>

(***************************************************************************)
(* C4                                                                      *)
(***************************************************************************)

\* Which lines of ls are timestamp lines.
TimestampLines(ls) == {k \in 1..Len(ls) : IsTimestampLine(ls[k])}

Least(S) == CHOOSE x \in S : \A y \in S : x <= y

\* The honored timestamp lines among the timestamp lines T: the first one, and
\* each one that follows a command line.
HonoredLines(T) == {i \in T : i = Least(T) \/ (i - 1) \notin T}

\* The next line of H after line i, n + 1 if there is none.
NextOf(H, i, n) ==
    IF \E j \in H : j > i THEN Least({j \in H : j > i}) ELSE n + 1

\* The entries of the honored timestamp lines of ls; with closedOnly, of those
\* only that a later honored timestamp line has closed.
GroupEntries(ls, closedOnly) ==
    LET T == TimestampLines(ls)
        H == HonoredLines(T)
        n == Len(ls)
        body(i) == ((i + 1)..(NextOf(H, i, n) - 1)) \ T
        entry(i) ==
            LET B == body(i)
                lines == [k \in 1..Cardinality(B) |-> ls[KthSmallest(B, k)]]
            IN  HistEntry(TimestampOf(ls[i]), join(lines, "\n"))
        E == {i \in H : /\ body(i) # {}
                        /\ (closedOnly => NextOf(H, i, n) <= n)}
    IN  [k \in 1..Cardinality(E) |-> entry(KthSmallest(E, k))]

\* C4: from the first timestamp line on, the command lines between an honored
\* timestamp line and the next one form exactly one entry, with that timestamp
\* and those lines joined by newline; while reading, the entries are those the
\* next timestamp line has closed, and at the end all of them.
C4_OneEntryPerTimestamp ==
    LET ls == lines_read
        T == TimestampLines(ls)
    IN  T # {} =>
            h_ret = SentinelEntries(SubSeq(ls, 1, Least(T) - 1))
                        \o GroupEntries(ls, pc # "done")

\* C4's case: a timestamp line, two command lines and the next timestamp line
\* have been read, and the two lines are one entry.
C4_Witness ==
    /\ pc = "reading"
    /\ line_no = 4
    /\ IsTimestampLine(line)
    /\ h_state = "LastWasTimestamp"
    /\ h_ret = <<HistEntry("1262305001", "foo\n#12")>>

(***************************************************************************)
(* C5                                                                      *)
(***************************************************************************)

\* The physical lines of a command: the pieces between its newlines.
SplitNewline(s) ==
    LET nls == NewlinesOf(s)
        n == Cardinality(nls) + 1
        cut(k) == IF k = 0 THEN 0
                  ELSE IF k = n THEN Len(s) + 1
                  ELSE KthSmallest(nls, k)
    IN  [k \in 1..n |-> SubSeq(s, cut(k - 1) + 1, cut(k) - 1)]

Range(f) == {f[x] : x \in DOMAIN f}

\* C5, as stated: every entry has non-empty text of one or more non-empty
\* physical lines.  (Refuted: histfile.rs makes an empty line a line of an
\* entry.)
C5_TextNeverEmpty ==
    /\ \A k \in 1..Len(h_ret) :
          /\ h_ret[k].command # ""
          /\ \A ln \in Range(SplitNewline(h_ret[k].command)) : ln # ""
    /\ \A k \in 1..Len(l_ret) :
          /\ l_ret[k].lines # <<>>
          /\ \A ln \in Range(l_ret[k].lines) : ln # ""

\* C5, amended: every entry of the lib.rs parser has one or more lines, none of
\* them empty or of whitespace only; every entry of the histfile.rs parser is
\* made of lines read from the input (all the lines of the input, at the end),
\* and its text and its lines are non-empty when no empty line has been read.
C5_TextOfInputLines ==
    LET inputLines == Range(lines_read)
    IN  /\ pc = "done" => lines_read = FileLines(input)
        /\ \A k \in 1..Len(l_ret) :
              /\ l_ret[k].lines # <<>>
              /\ \A ln \in Range(l_ret[k].lines) : ln # "" /\ ~IsBlank(ln)
        /\ \A k \in 1..Len(h_ret) :
              LET entryLines == Range(SplitNewline(h_ret[k].command))
              IN  /\ entryLines \subseteq inputLines
                  /\ "" \notin inputLines =>
                        h_ret[k].command # "" /\ "" \notin entryLines

\* C5's case: an input with an empty line after a timestamp has been parsed;
\* histfile.rs keeps the empty line in the entry, lib.rs drops it.
C5_Witness ==
    /\ pc = "done"
    /\ input = "#1262305001\n\nfoo\n"
    /\ h_ret = <<HistEntry("1262305001", "\nfoo")>>
    /\ l_ret = <<LibEntry("1262305001", <<"foo">>)>>

(***************************************************************************)
(* C6, C7                                                                  *)
(***************************************************************************)

\* The positions of es that start a run: the first, and every one whose
\* command differs from the command before it.
RunStarts(es) ==
    {i \in 1..Len(es) : i = 1 \/ es[i].command # es[i - 1].command}

\* The entries of es at the positions of S, in the order of es.
EntriesAt(es, S) == [k \in 1..Cardinality(S) |-> es[KthSmallest(S, k)]]

\* C6: dedup_entries returns, in the original order and unmodified, exactly
\* the first entry of every maximal run of consecutive entries with the same
\* command; entries with the same command in different runs are all kept.
C6_FirstOfEveryRun ==
    d_pc # "start" => d_once = EntriesAt(d_entries, RunStarts(d_entries))

\* C6's case: [A,B,B,B,A], the B's with different timestamps, has given
\* [A,B,A] with the timestamp of the first B.
C6_Witness ==
    /\ d_pc = "once"
    /\ [k \in 1..Len(d_entries) |-> d_entries[k].command]
          = <<"ls -la", "rm foobar", "rm foobar", "rm foobar", "ls -la">>
    /\ d_entries[2].ts # d_entries[3].ts
    /\ d_once = <<d_entries[1], d_entries[2], d_entries[5]>>

\* C7: dedup_entries is idempotent.
C7_DedupIdempotent ==
    d_pc = "twice" => d_twice = d_once

\* C7's case: dedup_entries has removed entries of two runs, and has been
\* applied again to its result.
C7_Witness ==
    /\ d_pc = "twice"
    /\ Len(d_once) >= 2
    /\ Len(d_entries) >= Len(d_once) + 2
    /\ \E i \in 2..(Len(d_entries) - 2) :
          /\ d_entries[i].command = d_entries[i - 1].command
          /\ d_entries[i + 1].command # d_entries[i].command
          /\ d_entries[i + 2].command = d_entries[i + 1].command
    /\ d_twice = d_once

(***************************************************************************)
(* C8, C9                                                                  *)
(***************************************************************************)

\* Every include pattern matches somewhere in text, and no exclude pattern
\* does.
AllIncludedNoneExcluded(text) ==
    /\ \A i \in 1..Len(m_inc_re) : is_match(m_inc_re[i], text)
    /\ \A j \in 1..Len(m_exc_re) : ~is_match(m_exc_re[j], text)

\* C8: HistEntry::matches is true exactly for the entries whose newline-joined
\* text is matched by every include pattern and by no exclude pattern, in
\* histfile.rs and, as the batch loop shows, in lib.rs; with no include and no
\* exclude pattern every entry matches.
C8_AllIncludesNoExcludes ==
    /\ m_pc \in {"base", "inc", "exc", "done"} =>
          /\ Len(m_base) = Len(m_entries)
          /\ \A k \in 1..Len(m_entries) :
                m_base[k] <=> AllIncludedNoneExcluded(m_entries[k].command)
          /\ (m_inc_re = <<>> /\ m_exc_re = <<>>) =>
                \A k \in 1..Len(m_entries) : m_base[k]
    /\ m_pc = "done" =>
          {r.idx + 1 : r \in Range(m_out)}
             = {k \in 1..Len(m_lib_entries) :
                  AllIncludedNoneExcluded(join(m_lib_entries[k].lines, "\n"))}

\* C8's case: with include and exclude patterns, one entry matches, one lacks
\* an include pattern and one is excluded, a multi-line entry among them.
C8_Witness ==
    /\ m_pc = "done"
    /\ m_inc_re # <<>> /\ m_exc_re # <<>>
    /\ \E k \in 1..Len(m_entries) : m_base[k]
    /\ \E k \in 1..Len(m_entries) :
          /\ ~m_base[k]
          /\ \E i \in 1..Len(m_inc_re) :
                ~is_match(m_inc_re[i], m_entries[k].command)
    /\ \E k \in 1..Len(m_entries) :
          /\ ~m_base[k]
          /\ \A i \in 1..Len(m_inc_re) :
                is_match(m_inc_re[i], m_entries[k].command)
          /\ Len(m_lib_entries[k].lines) > 1
    /\ m_out # <<>>

\* C9: an entry that matches with one more include pattern, or with one more
\* exclude pattern, matches without it.
C9_Monotonic ==
    /\ m_pc \in {"inc", "exc", "done"} =>
          \A k \in 1..Len(m_entries) : m_more_inc[k] => m_base[k]
    /\ m_pc \in {"exc", "done"} =>
          \A k \in 1..Len(m_entries) : m_more_exc[k] => m_base[k]

\* C9's case: the extra pattern removes an entry as an include pattern and
\* another one as an exclude pattern, and entries remain in both cases.
C9_Witness ==
    /\ m_pc = "exc"
    /\ m_inc_re # <<>>
    /\ \E k \in 1..Len(m_entries) : m_base[k] /\ ~m_more_inc[k]
    /\ \E k \in 1..Len(m_entries) : m_base[k] /\ m_more_inc[k]
    /\ \E k \in 1..Len(m_entries) : m_base[k] /\ ~m_more_exc[k]
    /\ \E k \in 1..Len(m_entries) : m_base[k] /\ m_more_exc[k]

(***************************************************************************)
(* C10                                                                     *)
(***************************************************************************)

\* raw has two or more characters, the first and the last of them `/`.
IsDelimited(raw) ==
    Len(raw) >= 2 /\ Ch(raw, 1) = "/" /\ Ch(raw, Len(raw)) = "/"

\* The regular expression that matches the characters of raw, one by one.
LiteralProgram(raw) == [i \in 1..Len(raw) |-> Lit(Ch(raw, i))]

\* C10: string_to_regex compiles the interior of raw, as it stands, if raw has
\* two or more characters and starts and ends with `/`; it compiles every
\* other raw string, `/` alone and a string with a leading `/` only included,
\* into the regular expression that matches raw literally.
C10_RegexIffDelimited ==
    p_pc # "start" =>
       IF IsDelimited(p_raw)
       THEN p_re = RegexBuilder_build(SubSeq(p_raw, 2, Len(p_raw) - 1),
                                      p_case = "Insensitive")
       ELSE /\ p_re.ok
            /\ p_re.ci = (p_case = "Insensitive")
            /\ p_re.prog = LiteralProgram(p_raw)

\* C10's case: the interior of `/abc/f[o]+.ar/`, a `/` in it, has been
\* compiled as a regular expression and has matched.
C10_Witness ==
    /\ p_pc = "matched"
    /\ p_raw = "/abc/f[o]+.ar/"
    /\ p_re.src = "abc/f[o]+.ar"
    /\ p_text = "abc/foobar"
    /\ p_match

(***************************************************************************)
(* C11                                                                     *)
(***************************************************************************)

\* s occurs in text as a contiguous substring; with ci, up to the case of the
\* letters.
Occurs(s, text, ci) ==
    \E pos \in 0..(Len(text) - Len(s)) :
        \A i \in 1..Len(s) :
            IF ci THEN Fold(Ch(text, pos + i)) = Fold(Ch(s, i))
            ELSE Ch(text, pos + i) = Ch(s, i)

\* C11, as stated: a pattern compiled as a literal matches a text exactly if
\* the raw string occurs in the text as a contiguous substring.  (Refuted: in
\* case mode Insensitive `asDf` matches `XasdfX`.)
C11_LiteralIffSubstring ==
    (p_pc = "matched" /\ ~IsDelimited(p_raw)) =>
        (p_match <=> Occurs(p_raw, p_text, FALSE))

\* C11, amended: a pattern compiled as a literal matches a text exactly if the
\* raw string occurs in the text as a contiguous substring, character by
\* character, in case mode Sensitive as it stands and in case mode Insensitive
\* up to the case of the letters; `asd[12]` matches `asd[12]` but not `asd1`,
\* and `/asd[12]/` matches `asd1` and `_asd2_` but not `asd[12]`.
C11_LiteralIffSubstringInCaseMode ==
    p_pc = "matched" =>
        /\ ~IsDelimited(p_raw) =>
              (p_match <=> Occurs(p_raw, p_text, p_case = "Insensitive"))
        /\ (p_raw = "asd[12]" /\ p_text = "asd[12]") => p_match
        /\ (p_raw = "asd[12]" /\ p_text = "asd1") => ~p_match
        /\ (p_raw = "/asd[12]/" /\ p_text \in {"asd1", "_asd2_"}) => p_match
        /\ (p_raw = "/asd[12]/" /\ p_text = "asd[12]") => ~p_match

\* C11's case: the literal `asd[12]` has been tried on `asd1` and has not
\* matched it.
C11_Witness ==
    /\ p_pc = "matched"
    /\ p_raw = "asd[12]"
    /\ p_re.prog = LiteralProgram("asd[12]")
    /\ p_text = "asd1"
    /\ ~p_match

(***************************************************************************)
(* C12                                                                     *)
(***************************************************************************)

\* raw is wrapped in `/` and its interior is not a regular expression.
IsMalformed(raw) ==
    IsDelimited(raw) /\ ~regex_parse(SubSeq(raw, 2, Len(raw) - 1), 1, <<>>).ok

\* r is what process_patterns owes for raws: all of them compiled, in input
\* order, or the error of the first malformed one and no compiled pattern.
ProcessedAsOwed(raws, case_mode, r) ==
    LET bad == {i \in 1..Len(raws) : IsMalformed(raws[i])}
    IN  IF bad = {}
        THEN /\ r.ok
             /\ Len(r.res) = Len(raws)
             /\ \A i \in 1..Len(raws) :
                   /\ r.res[i].ok
                   /\ r.res[i] = string_to_regex(raws[i], case_mode)
        ELSE /\ ~r.ok
             /\ r.res = <<>>
             /\ r.err = "Error parsing pattern '" \o raws[Least(bad)] \o "'"
             /\ r.cause = SubSeq(raws[Least(bad)], 2, Len(raws[Least(bad)]) - 1)

\* C12: a pattern wrapped in `/` with a malformed interior is an error that
\* names the pattern, never a literal; process_patterns returns the compiled
\* patterns in input order, or the error of the first pattern that fails and
\* no compiled pattern; actual_main stops at the first error.
C12_FirstErrorNoPatterns ==
    /\ pp_pc \in {"included", "compiled", "failed"} =>
          ProcessedAsOwed(pp_include, pp_case, pp_inc)
    /\ pp_pc = "included" => pp_inc.ok /\ pp_exc = NotProcessed
    /\ pp_pc = "compiled" =>
          pp_inc.ok /\ pp_exc.ok /\ ProcessedAsOwed(pp_exclude, pp_case, pp_exc)
    /\ pp_pc = "failed" =>
          \/ ~pp_inc.ok /\ pp_exc = NotProcessed
          \/ pp_inc.ok /\ ~pp_exc.ok
                /\ ProcessedAsOwed(pp_exclude, pp_case, pp_exc)

\* C12's case: after a pattern that compiles, two malformed patterns; the
\* error names the first of them and no pattern is returned.
C12_Witness ==
    /\ pp_pc = "failed"
    /\ pp_include = <<"foo", "/+/", "/[/">>
    /\ ~pp_inc.ok
    /\ pp_inc.res = <<>>
    /\ pp_inc.err = "Error parsing pattern '/+/'"

(***************************************************************************)
(* C13                                                                     *)
(***************************************************************************)

\* The App exists: it has been constructed and run has not returned.
AppAlive == a_pc \in {"constructed", "draw", "read"}

\* The positions of the entries handed to run_interactive that no exclude
\* pattern matches.
NotExcluded ==
    {i \in 1..Len(a_in.entries) :
        \A j \in 1..Len(a_in.exclude_re) :
            ~is_match(a_in.exclude_re[j], a_in.entries[i].command)}

\* C13: from construction on, whatever key events have been handled, the
\* master list is the entries handed in that no exclude pattern matches, in
\* their order.
C13_MasterListFixed ==
    AppAlive => a_entries = EntriesAt(a_in.entries, NotExcluded)

\* C13's case: an exclude pattern has removed entries, and a typed character
\* has changed the search text and the filtered list.
C13_Witness ==
    /\ a_pc = "draw"
    /\ a_in.exclude_re # <<>>
    /\ Len(a_entries) < Len(a_in.entries)
    /\ a_event = CharPress("o", FALSE)
    /\ a_search.value # a_in.inital_search
    /\ a_filtered.entries # <<>>
    /\ Len(a_filtered.entries) < Len(a_entries)

(***************************************************************************)
(* C14                                                                     *)
(***************************************************************************)

\* The whitespace-separated words of s: its maximal stretches without
\* whitespace.
WordsOf(s) ==
    LET blank(i) == i < 1 \/ i > Len(s) \/ is_ascii_whitespace(Ch(s, i))
    IN  {SubSeq(s, i, j) : <<i, j>> \in
            {ij \in (1..Len(s)) \X (1..Len(s)) :
                /\ ij[1] <= ij[2]
                /\ \A k \in ij[1]..ij[2] : ~blank(k)
                /\ blank(ij[1] - 1)
                /\ blank(ij[2] + 1)}}

\* The positions of the master list whose text contains every word of the
\* search text, literally, in the case mode.
ContainingAllWords ==
    {i \in 1..Len(a_entries) :
        \A w \in WordsOf(a_search.value) :
            Occurs(w, a_entries[i].command, a_case = "Insensitive")}

\* C14: at construction and after every handled key event, the filtered list
\* is the entries of the master list, in its order, whose text contains
\* every whitespace-separated word of the search text, each word taken
\* literally in the case mode; an empty search text gives the master list.
C14_FilteredByLiteralWords ==
    AppAlive =>
        /\ a_filtered.entries = EntriesAt(a_entries, ContainingAllWords)
        /\ a_search.value = "" => a_filtered.entries = a_entries
        /\ a_case = a_in.case_mode

\* C14's case: the search text `/f.o/` has kept the one entry that contains
\* it, not the entries `f.o` alone matches.
C14_Witness ==
    /\ a_pc = "read"
    /\ a_search.value = "/f.o/"
    /\ a_in.exclude_re = <<>>
    /\ Len(a_entries) = 5
    /\ a_filtered.entries = <<a_entries[3]>>

(***************************************************************************)
(* C15, C16                                                                *)
(***************************************************************************)

IsPress(ev, code) == ev.kind = "Key" /\ ev.press /\ ev.code = code
IsCtrlC(ev) == IsPress(ev, "Char") /\ ev.c = "c" /\ ev.ctrl
IsExitKey(ev) ==
    IsPress(ev, "Esc") \/ IsCtrlC(ev) \/ IsPress(ev, "Enter")

\* An event has been read and matched on.
EventHandled == a_pc = "read" /\ a_pc' \in {"draw", "returned"}

\* C15: Escape and Ctrl-C end the loop without a selection; Enter ends it
\* with the selected entry of the filtered list, without one if the filtered
\* list is empty.  (Refuted by the code: on a screen without a row for the
\* list the selection is never brought into the list, and Enter returns no
\* selection although the filtered list has entries.)
C15_ExitKeysReturnSelection ==
    [][EventHandled =>
         /\ (IsPress(a_event', "Esc") \/ IsCtrlC(a_event')) =>
               /\ a_pc' = "returned"
               /\ a_result' = [ok |-> TRUE, entry |-> NoEntry, err |-> ""]
         /\ IsPress(a_event', "Enter") =>
               /\ a_pc' = "returned"
               /\ a_result'.ok
               /\ a_filtered.entries = <<>> => a_result'.entry = NoEntry
               /\ a_filtered.entries # <<>> =>
                     /\ a_result'.entry.some
                     /\ a_result'.entry.val \in Range(a_filtered.entries)]_vars

\* C16: the loop returns on a press of Escape, Ctrl-C or Enter only; after
\* every other event it is still running, renders next and then blocks for
\* the next event, unless the rendering fails.
C16_OnlyExitKeysReturn ==
    /\ [][EventHandled =>
            IF IsExitKey(a_event')
            THEN a_pc' = "returned"
            ELSE a_pc' = "draw" /\ a_raw' /\ a_result' = NotReturned]_vars
    /\ [][a_pc = "draw" => a_pc' \in {"read", "failed"}]_vars
    /\ [](a_pc = "returned" => IsExitKey(a_event) /\ a_result.ok)

\* C16's case: a paste has been read, and the loop is about to render.
C16_Witness ==
    /\ a_pc = "draw"
    /\ a_event.kind = "Paste"
    /\ a_raw
    /\ a_result = NotReturned
    /\ a_search.value = "o"

(***************************************************************************)
(* C17                                                                     *)
(***************************************************************************)

\* C17: while the loop runs the terminal is in the mode set up at the start
\* and has not been restored; when run has returned, with a selection, without
\* one or with the error of a draw or of an event read, it has been restored
\* exactly once.
C17_RestoredExactlyOnce ==
    /\ a_pc \in {"draw", "read"} => a_raw /\ a_restores = 0
    /\ a_pc \in {"returned", "failed"} => ~a_raw /\ a_restores = 1
    /\ a_pc = "failed" <=> (a_result.err # "")

\* C17's case: an event read has failed after a key was handled, and run has
\* returned the error.
C17_Witness ==
    /\ a_pc = "failed"
    /\ a_result.err = "read"
    /\ a_event = KeyPress("Down")
    /\ ~a_raw
    /\ a_restores = 1

(***************************************************************************)
(* C18                                                                     *)
(***************************************************************************)

\* The positions (1-based, ascending) of the entries of the full list that
\* every include pattern and no exclude pattern matches.
RECURSIVE MatchingFrom(_)
MatchingFrom(k) ==
    IF k > Len(m_lib_entries) THEN <<>>
    ELSE (IF AllIncludedNoneExcluded(join(m_lib_entries[k].lines, "\n"))
          THEN <<k>> ELSE <<>>) \o MatchingFrom(k + 1)

\* The number a string of lower-case hexadecimal digits writes.
RECURSIVE HexValue(_)
HexValue(h) ==
    IF h = "" THEN 0
    ELSE 16 * HexValue(SubSeq(h, 1, Len(h) - 1))
            + ((CHOOSE i \in 1..16 : HexDigits[i] = Ch(h, Len(h))) - 1)

IsHexOf(h, n) ==
    /\ h # ""
    /\ \A i \in 1..Len(h) : Ch(h, i) \in Range(HexDigits)
    /\ Len(h) > 1 => Ch(h, 1) # "0"
    /\ HexValue(h) = n

\* The calendar, counted from 1970-01-01.
IsLeap(y) == y % 4 = 0 /\ (y % 100 # 0 \/ y % 400 = 0)

DaysIn(m, y) ==
    IF m = 2 THEN (IF IsLeap(y) THEN 29 ELSE 28)
    ELSE IF m \in {4, 6, 9, 11} THEN 30 ELSE 31

RECURSIVE DaysBeforeYear(_)
DaysBeforeYear(y) ==
    IF y <= 1970 THEN 0
    ELSE DaysBeforeYear(y - 1) + (IF IsLeap(y - 1) THEN 366 ELSE 365)

RECURSIVE DaysBeforeMonth(_, _)
DaysBeforeMonth(m, y) ==
    IF m <= 1 THEN 0 ELSE DaysBeforeMonth(m - 1, y) + DaysIn(m - 1, y)

\* str is `YYYY-MM-DD HH:MM:SS`, a date and a time of day that exist, and it is
\* the time `secs` seconds after 1970-01-01 00:00:00 UTC read on a clock that is
\* `offset` seconds ahead of UTC.
IsLocalTime(str, secs, offset) ==
    /\ Len(str) = 19
    /\ \A i \in 1..19 :
          IF i \in {5, 8} THEN Ch(str, i) = "-"
          ELSE IF i = 11 THEN Ch(str, i) = " "
          ELSE IF i \in {14, 17} THEN Ch(str, i) = ":"
          ELSE Ch(str, i) \in Digits
    /\ LET num(a, b) == dec_value(SubSeq(str, a, b), 0)
           y == num(1, 4)
           mo == num(6, 7)
           d == num(9, 10)
           h == num(12, 13)
           mi == num(15, 16)
           sec == num(18, 19)
       IN  /\ y >= 1970 /\ mo \in 1..12 /\ d \in 1..DaysIn(mo, y)
           /\ h < 24 /\ mi < 60 /\ sec < 60
           /\ (DaysBeforeYear(y) + DaysBeforeMonth(mo, y) + d - 1) * 86400
                 + h * 3600 + mi * 60 + sec
              = secs + offset

\* text begins with the record of position k of the full list: the index in
\* hexadecimal, one blank, the local time, the separator and the joined text.
RecordLength(k, sep) ==
    Len(lower_hex(k - 1)) + 1 + 19 + Len(sep)
       + Len(join(m_lib_entries[k].lines, "\n"))

BeginsWithRecord(text, k, sep) ==
    LET e == m_lib_entries[k]
        ix == CHOOSE i \in 1..Len(text) : Ch(text, i) = " "
    IN  /\ \E i \in 1..Len(text) : Ch(text, i) = " "
        /\ IsHexOf(SubSeq(text, 1, ix - 1), k - 1)
        /\ \A i \in 1..(ix - 1) : Ch(text, i) # " "
        /\ IsLocalTime(SubSeq(text, ix + 1, ix + 19), timestamp(e.ts), m_tz)
        /\ SubSeq(text, ix + 20, Len(text))
              = sep \o join(e.lines, "\n")

\* The output is the records of the positions ks, one after the other, each
\* ended by a newline.
RECURSIVE IsRecords(_, _, _)
IsRecords(text, ks, sep) ==
    IF ks = <<>> THEN text = ""
    ELSE LET n == RecordLength(ks[1], sep)
         IN  /\ Len(text) > n
             /\ BeginsWithRecord(SubSeq(text, 1, n), ks[1], sep)
             /\ Ch(text, n + 1) = "\n"
             /\ IsRecords(SubSeq(text, n + 2, Len(text)), Tail(ks), sep)

\* The lines of the output.
OutputLines == SplitNewline(m_stdout)

\* C18 as stated: one output line for each matching entry and nothing else, in
\* list order, each `<index-in-hex> <local-timestamp> <command>` with the
\* position in the full list as index.  (Refuted: three blanks stand between
\* the timestamp and the text, and an entry of several lines is printed on
\* several lines.)
C18_OneLinePerMatch ==
    m_pc = "done" =>
        /\ IsRecords(m_stdout, MatchingFrom(1), " ")
        /\ Len(OutputLines) = Len(MatchingFrom(1)) + 1

\* C18, amended: the output is one record for each matching entry and nothing
\* else, in list order; a record is the 0-based position of the entry in the
\* full list in lower-case hexadecimal, one blank, the local time as
\* `YYYY-MM-DD HH:MM:SS`, three blanks, the joined text of the entry, and a
\* newline; it has as many lines as the entry.
C18_OneRecordPerMatch ==
    m_pc = "done" =>
        /\ IsRecords(m_stdout, MatchingFrom(1), "   ")
        /\ \A i \in 1..Len(m_out) :
              m_lib_entries[m_out[i].idx + 1] = m_out[i].entry

\* C18's case: the entry at position 0x10, of three lines, is printed after
\* entries that do not match, five hours behind UTC.
C18_Witness ==
    /\ m_pc = "done"
    /\ m_tz = -18000
    /\ m_stdout = "10 2009-12-31 19:16:41   s.f foo\n\nbar\n"

(***************************************************************************)
(* C19                                                                     *)
(***************************************************************************)

\* C19: when reading the k-th line fails, k - 1 lines having been read, both
\* parsers return an error whose message carries the number k, and no
\* entries, whatever they had built from the lines before.
C19_ReadErrorCarriesLineNumber ==
    /\ pc = "failed" =>
          LET k == Len(lines_read) + 1
          IN  \A result \in {h_result, l_result} :
                 /\ ~result.ok
                 /\ result.res = <<>>
                 /\ result.err = "Error reading line number " \o ToString(k)
    /\ pc = "done" => h_result = Parsed(h_ret) /\ l_result = Parsed(l_ret)
    /\ pc = "reading" => h_result = NotParsed /\ l_result = NotParsed

\* C19's case: reading the third line fails after both parsers have built an
\* entry from the first two.
C19_Witness ==
    /\ pc = "failed"
    /\ Len(lines_read) = 2
    /\ h_ret # <<>>
    /\ l_ret # <<>>
    /\ h_result.err = "Error reading line number 3"
    /\ h_result.res = <<>>

(***************************************************************************)
(* C20                                                                     *)
(***************************************************************************)

\* A line has been read and handled by the loop.
LineHandled == pc = "reading" /\ line_no' = line_no + 1

\* C20: in lib.rs a line that is empty or all whitespace is classified as
\* Empty, and reading it leaves the state, the timestamp and the lines of the
\* entry in progress and the entries emitted unchanged, in every state; no
\* entry, emitted or in progress, has such a line.
C20_EmptyLinesDropped ==
    /\ [][LineHandled =>
            /\ IsBlank(line') <=> Lib_ParsedLine_parse(line') = Empty
            /\ IsBlank(line') =>
                  /\ l_state' = l_state
                  /\ l_cur_entry' = l_cur_entry
                  /\ l_ret' = l_ret]_vars
    /\ [](\A e \in Range(l_ret) \cup {l_cur_entry} :
             \A ln \in Range(e.lines) : ~IsBlank(ln))

\* C20's case: a line of one blank has been read while a command was being
\* gathered, after entries had been emitted.
C20_Witness ==
    /\ pc = "reading"
    /\ line = " "
    /\ l_state = "LastWasCommand"
    /\ l_cur_entry.lines = <<"foo">>
    /\ l_ret # <<>>

(***************************************************************************)
(* C21                                                                     *)
(***************************************************************************)

\* C21: in histfile.rs a line that is empty or all whitespace is a Command
\* with the line as its text; read after a timestamp it is appended to the
\* lines of the command in progress and the state becomes LastWasCommand,
\* nothing else changing; the file `#1262305001`, ``, `foo`, `` gives the one
\* entry of the lines ``, `foo`, ``.
C21_BlankLineIsCommandLine ==
    /\ [][(LineHandled /\ IsBlank(line')) =>
            /\ ParsedLine_parse(line') = Command(line')
            /\ h_state # "NoTimestamps" =>
                  /\ h_cur_lines' = Append(h_cur_lines, line')
                  /\ h_state' = "LastWasCommand"
                  /\ h_cur_ts' = h_cur_ts
                  /\ h_ret' = h_ret]_vars
    /\ []((pc = "done" /\ lines_read = <<"#1262305001", "", "foo", "">>) =>
             h_ret = <<HistEntry("1262305001", join(<<"", "foo", "">>, "\n"))>>)

\* C21's case: the file of the timestamp, an empty line, a command line and an
\* empty line has been parsed.
C21_Witness ==
    /\ pc = "done"
    /\ lines_read = <<"#1262305001", "", "foo", "">>
    /\ Len(h_ret) = 1
    /\ h_ret[1].command = "\nfoo\n"

(***************************************************************************)
(* C22                                                                     *)
(***************************************************************************)

\* The reader is exhausted and the function returns.
InputEnds == pc = "reading" /\ pc' = "done"

\* C22: at the end of the input both parsers append the entry in progress if
\* the state is LastWasCommand, and nothing otherwise: a timestamp line that
\* ends the input gives no entry, and in NoTimestamps nothing more is emitted.
C22_FlushIffLastWasCommand ==
    [][InputEnds =>
         /\ h_ret' = IF h_state = "LastWasCommand"
                     THEN Append(h_ret, HistEntry(h_cur_ts,
                                                  join(h_cur_lines, "\n")))
                     ELSE h_ret
         /\ l_ret' = IF l_state = "LastWasCommand"
                     THEN Append(l_ret, l_cur_entry)
                     ELSE l_ret
         /\ h_result' = Parsed(h_ret') /\ l_result' = Parsed(l_ret')]_vars

\* C22's case: the input has ended with a timestamp line after one entry, and
\* that timestamp is in no entry.
C22_Witness ==
    /\ pc = "done"
    /\ lines_read = <<"#1262305001", "foo", "#1262305003">>
    /\ h_state = "LastWasTimestamp" /\ l_state = "LastWasTimestamp"
    /\ h_cur_ts = "1262305003"
    /\ h_ret = <<HistEntry("1262305001", "foo")>>
    /\ l_ret = <<LibEntry("1262305001", <<"foo">>)>>

(***************************************************************************)
(* C23                                                                     *)
(***************************************************************************)

\* The digits of a line `#<number>`, a sign `+` before them left out, and
\* whether the line is such a marker of a value of at least 1262304000.
MarkerDigits(ln) ==
    LET number == Drop(ln, 1)
    IN  IF number # "" /\ Ch(number, 1) = "+" THEN Drop(number, 1) ELSE number

IsMarker(ln) ==
    /\ Len(ln) >= 2
    /\ Ch(ln, 1) = "#"
    /\ MarkerDigits(ln) # ""
    /\ \A i \in 1..Len(MarkerDigits(ln)) : Ch(MarkerDigits(ln), i) \in Digits
    /\ DecGeq(StripZeros(MarkerDigits(ln)), "1262304000")

\* The timestamps the markers among the lines read so far decode to.
MarkerTimes(ls) ==
    {StripZeros(MarkerDigits(ls[k])) : k \in {j \in 1..Len(ls) : IsMarker(ls[j])}}

\* The entries a step has appended to a list of entries.
Emitted(before, after) ==
    {after[k] : k \in (Len(before) + 1)..Len(after)}

\* The lifecycle of one parser over a step, given its state and its entries
\* before and after.
Lifecycle(state, state_1, ret, ret_1) ==
    /\ LineHandled =>
          /\ state = "NoTimestamps" =>
                (state_1 # "NoTimestamps" <=> IsMarker(line'))
          /\ state # "NoTimestamps" => state_1 # "NoTimestamps"
    /\ (LineHandled \/ InputEnds) =>
          /\ Len(ret_1) >= Len(ret)
          /\ SubSeq(ret_1, 1, Len(ret)) = ret
          /\ \A e \in Emitted(ret, ret_1) :
                IF state = "NoTimestamps"
                THEN e.ts = "1262304000"
                ELSE e.ts \in MarkerTimes(lines_read)

\* C23: both parsers start in NoTimestamps, leave it on the first timestamp
\* line and never come back; an entry emitted in NoTimestamps has the
\* sentinel timestamp, an entry emitted later has the timestamp of a marker
\* line read before, whose value is at least 1262304000; so the timestamp of
\* every entry is at least the sentinel.
C23_StateLifecycle ==
    /\ [][Lifecycle(h_state, h_state', h_ret, h_ret')]_vars
    /\ [][Lifecycle(l_state, l_state', l_ret, l_ret')]_vars
    /\ []((pc = "reading" /\ line_no = 0) =>
             h_state = "NoTimestamps" /\ l_state = "NoTimestamps")
    /\ [](\A e \in Range(h_ret) \cup Range(l_ret) :
             DecGeq(e.ts, ToString(MIN_REASONABLE_UNIXTIME)))

\* C23's case: a command before the first timestamp and one after it have
\* become an entry of the sentinel and an entry of the marker's timestamp.
C23_Witness ==
    /\ pc = "done"
    /\ lines_read = <<"foo", "#1262305001", "foo">>
    /\ h_ret = <<HistEntry("1262304000", "foo"), HistEntry("1262305001", "foo")>>
    /\ l_ret = <<LibEntry("1262304000", <<"foo">>),
                 LibEntry("1262305001", <<"foo">>)>>

(***************************************************************************)
(* C24                                                                     *)
(***************************************************************************)

FileParseStates == {"NoTimestamps", "LastWasTimestamp", "LastWasCommand"}

\* Every pair of a state and a class of line has a transition, to a state.
TransitionsTotal ==
    /\ \A st \in FileParseStates :
          \A parsed \in {Command("foo"), Command(""), Timestamp("1262305001")} :
              parse_step([state |-> st, cur_ts |-> default_ts,
                          cur_lines |-> <<>>, ret |-> <<>>], parsed).state
                 \in FileParseStates
    /\ \A st \in FileParseStates :
          \A parsed \in {Command("foo"), Empty, Timestamp("1262305001")} :
              lib_parse_step([state |-> st, cur_entry |-> with_ts(default_ts),
                              ret |-> <<>>], parsed).state
                 \in FileParseStates

\* C24: on every file whose lines can all be read, both parsers come to their
\* end, having read every line of the file, and return Ok; until then there
\* is always a next step, also after a second timestamp in a row and after an
\* empty line.
C24_ParsingTerminates ==
    /\ <>(pc = "done")
    /\ [](pc = "done" =>
             /\ h_result.ok /\ l_result.ok
             /\ lines_read = FileLines(input))
    /\ [](pc = "reading" =>
             /\ rest # "" => ENABLED ParseLine
             /\ rest = "" => ENABLED ParseFinish)
    /\ [](pc \in {"reading", "done"} /\ TransitionsTotal)

\* C24's case: a file with an empty line and two timestamps in a row has been
\* parsed to its end.
C24_Witness ==
    /\ pc = "done"
    /\ lines_read = <<"", "#1262305001", "#1262305003">>
    /\ h_result.ok /\ l_result.ok
    /\ h_result.res = <<HistEntry("1262304000", "")>>
    /\ l_result.res = <<>>

(***************************************************************************)
(* C25                                                                     *)
(***************************************************************************)

\* The filtered list has just been recomputed: the App has been constructed
\* and no event read yet, or the event read last was a character typed into
\* the search text.
JustFiltered ==
    \/ a_event = NoEvent
    \/ IsPress(a_event, "Char") /\ ~a_event.ctrl

\* C25: when the filtered list has just been recomputed and has entries, an
\* Enter press as the next event returns its last entry.  (Refuted by the
\* code: on a screen without a row for the list the selection stays where
\* select_last has put it, beyond the list, and Enter returns no selection.)
C25_EnterAfterFilterReturnsLast ==
    [][(EventHandled /\ JustFiltered /\ IsPress(a_event', "Enter")
          /\ a_filtered.entries # <<>>) =>
         /\ a_pc' = "returned"
         /\ a_result'.ok
         /\ a_result'.entry.some
         /\ a_result'.entry.val = a_filtered.entries[Len(a_filtered.entries)]]_vars

(***************************************************************************)
(* C26                                                                     *)
(***************************************************************************)

\* The position (0-based) the selection of a list of n entries is shown at and
\* kept at by the next rendering: an index beyond the list is the last entry.
Shown(selected, n) == IF selected.val >= n THEN n - 1 ELSE selected.val

\* C26: while the filtered list has entries, the loop waits for an event with
\* one of them selected; an Up press selects the entry before it and a Down
\* press the entry after it, Up on the first entry and Down on the last one
\* leaving the selection where it is.  (Refuted by the code: on a screen
\* without a row for the list the selection is beyond the list, on no entry,
\* and Up and Down move it there.)
C26_UpDownByOneClamped ==
    /\ []((a_pc = "read" /\ a_filtered.entries # <<>>) =>
             /\ a_filtered.state.selected.some
             /\ a_filtered.state.selected.val < Len(a_filtered.entries))
    /\ [][(EventHandled /\ a_filtered.entries # <<>>
             /\ (IsPress(a_event', "Up") \/ IsPress(a_event', "Down"))) =>
            LET n == Len(a_filtered.entries)
                at == a_filtered.state.selected.val
                to == Shown(a_filtered'.state.selected, n)
            IN  /\ a_pc' = "draw"
                /\ a_filtered'.entries = a_filtered.entries
                /\ a_filtered'.state.selected.some
                /\ IsPress(a_event', "Up") =>
                      to = (IF at = 0 THEN 0 ELSE at - 1)
                /\ IsPress(a_event', "Down") =>
                      to = (IF at = n - 1 THEN n - 1 ELSE at + 1)]_vars

\* C27: an entry is rendered as one display line per physical line of its
\* command text, and as at least one: the first display line is the local
\* timestamp `YYYY-MM-DD HH:MM:SS`, one blank and the first command line;
\* every further display line is the command line after as many blanks as
\* the timestamp and the separator are wide.
PhysicalLines(s) ==
    LET ends == NewlinesOf(s) \cup {Len(s) + 1}
        starts == {1} \cup {i + 1 : i \in NewlinesOf(s)}
    IN  [k \in 1..Cardinality(starts) |->
            LET b == KthSmallest(starts, k)
                e == KthSmallest(ends, k)
            IN  SubSeq(s, b, e - 1)]

C27_OneDisplayLinePerPhysicalLine ==
    w_pc = "wrapped" =>
        LET phys == PhysicalLines(w_entry.command)
            ts_str == ts_as_string(w_entry, w_tz)
        IN  /\ IsLocalTime(ts_str, timestamp(w_entry.ts), w_tz)
            /\ Len(w_lines) >= 1
            /\ Len(w_lines) = Len(phys)
            /\ \A k \in 1..Len(w_lines) :
                  w_lines[k] = (IF k = 1 THEN ts_str \o " "
                                ELSE repeat_n(" ", Len(ts_str) + 1)) \o phys[k]

(***************************************************************************)
(* C28                                                                     *)
(***************************************************************************)

RECURSIVE Flatten(_)
Flatten(seqs) == IF seqs = <<>> THEN <<>> ELSE Head(seqs) \o Flatten(Tail(seqs))

\* The lines of the entries, one after the other.
HistLinesOf(ret) == Flatten([k \in 1..Len(ret) |-> SplitNewline(ret[k].command)])
LibLinesOf(ret) == Flatten([k \in 1..Len(ret) |-> ret[k].lines])

\* The lines read so far that each parser classifies as Command.
HistCommandsRead ==
    SelectSeq(lines_read, LAMBDA ln : ParsedOf(ln).kind = "Command")
LibCommandsRead ==
    SelectSeq(lines_read, LAMBDA ln : LibParsedOf(ln).kind = "Command")

\* C28: no command line is lost, doubled or moved.  While the file is read
\* the lines of the entries pushed so far, followed by the lines gathered for
\* the entry in the making, are the lines read so far that are Command lines,
\* in file order; when the parser has returned, the lines of the returned
\* entries are the Command lines of the whole file, in file order.
C28_CommandLinesPreserved ==
    /\ pc = "reading" =>
          /\ HistLinesOf(h_ret) \o h_cur_lines = HistCommandsRead
          /\ LibLinesOf(l_ret) \o l_cur_entry.lines = LibCommandsRead
    /\ pc = "done" =>
          /\ lines_read = FileLines(input)
          /\ HistLinesOf(h_result.res) = HistCommandsRead
          /\ LibLinesOf(l_result.res) = LibCommandsRead

\* C28's case: a file of MaxLines lines with a timestamp and, after it, a
\* line that lib.rs drops as Empty has been parsed; both parsers return
\* entries, and the lines of the two results differ.
C28_Witness ==
    /\ pc = "done"
    /\ Len(lines_read) = MaxLines
    /\ \E i, j \in 1..Len(lines_read) :
          /\ ParsedOf(lines_read[i]).kind = "Timestamp"
          /\ LibParsedOf(lines_read[j]).kind = "Empty"
          /\ i < j
    /\ Len(HistLinesOf(h_result.res)) >= 2
    /\ LibLinesOf(l_result.res) # <<>>
    /\ Len(l_result.res) >= 1
    /\ HistLinesOf(h_result.res) # LibLinesOf(l_result.res)

(***************************************************************************)
(* C29                                                                     *)
(***************************************************************************)

\* No line read so far is empty or of whitespace only.
NoBlankLineRead == \A k \in 1..Len(lines_read) : ~IsBlank(lines_read[k])

\* The entries of lib.rs as (timestamp, newline-joined text).
Joined(ret) ==
    [k \in 1..Len(ret) |-> HistEntry(ret[k].ts, join(ret[k].lines, "\n"))]

\* C29: on an input without empty and whitespace-only lines the two parsers
\* go the same way: after every line they are in the same state, with the
\* same current timestamp, the same lines gathered and the same entries
\* pushed, and they return the same entries.
C29_ParsersAgreeWithoutBlankLines ==
    NoBlankLineRead =>
        /\ h_state = l_state
        /\ h_cur_ts = l_cur_entry.ts
        /\ h_cur_lines = l_cur_entry.lines
        /\ h_ret = Joined(l_ret)
        /\ h_result.ok = l_result.ok
        /\ h_result.res = Joined(l_result.res)

\* C29's case: a file of four lines, none of them blank, with a line before
\* the first timestamp, two timestamps in a row and a line after them has
\* been parsed by both.
C29_Witness ==
    /\ pc = "done"
    /\ NoBlankLineRead
    /\ lines_read = <<"foo", "#1262305001", "#1262305003", "foo">>
    /\ h_result.res = <<HistEntry(default_ts, "foo"),
                        HistEntry("1262305001", "foo")>>
    /\ l_result.res = <<LibEntry(default_ts, <<"foo">>),
                        LibEntry("1262305001", <<"foo">>)>>

(***************************************************************************)
(* C30                                                                     *)
(***************************************************************************)

\* run returns an entry on this step.
ReturnsEntry == a_pc = "read" /\ a_pc' = "returned" /\ a_result'.entry.some

\* C30: whatever events came before, an entry the loop returns is one of the
\* filtered list as it is when the key is pressed: an entry of the master
\* list, so one of the entries handed in that no exclude pattern given at
\* construction matches, and one whose text contains every word of the
\* search text of that moment.  What run has returned stays an entry handed
\* in that no exclude pattern matches.
C30_ReturnedEntryIsFiltered ==
    /\ [][ReturnsEntry =>
            LET e == a_result'.entry.val
            IN  /\ a_result'.ok
                /\ e \in Range(a_filtered.entries)
                /\ e \in Range(a_entries)
                /\ e \in Range(a_in.entries)
                /\ \A j \in 1..Len(a_in.exclude_re) :
                      ~is_match(a_in.exclude_re[j], e.command)
                /\ \A w \in WordsOf(a_search.value) :
                      Occurs(w, e.command, a_case = "Insensitive")]_vars
    /\ [](a_pc = "returned" /\ a_result.entry.some =>
            /\ a_result.entry.val \in Range(a_in.entries)
            /\ \A j \in 1..Len(a_in.exclude_re) :
                  ~is_match(a_in.exclude_re[j], a_result.entry.val.command))

\* C30's case: with an exclude pattern and the search text `/f.o/`, Enter
\* has returned the one entry that is not excluded and contains the search
\* text.
C30_Witness ==
    /\ a_pc = "returned"
    /\ a_event = KeyPress("Enter")
    /\ a_in.exclude_re # <<>>
    /\ a_in.inital_search = "/f.o/"
    /\ a_result.ok
    /\ a_result.entry = Some(HistEntry("1262305003", "ls\n/f.o/"))

(***************************************************************************)
(* C31                                                                     *)
(***************************************************************************)

\* The key presses that move the selection, the events the loop ignores, and
\* the key presses handed to the search text.
MovesSelection(ev) ==
    \E code \in {"Up", "Down", "PageUp", "PageDown"} : IsPress(ev, code)
IsIgnored(ev) == ev.kind # "Key" \/ ~ev.press
IsForwarded(ev) ==
    /\ ev.kind = "Key" /\ ev.press
    /\ ~IsExitKey(ev)
    /\ ~MovesSelection(ev)

\* C31: Up, Down, Page-Up and Page-Down presses and the ignored events leave
\* the search text, the master list and the entries of the filtered list as
\* they are, and the loop goes on; an ignored event leaves the selection
\* too.  A key the search text is handed that leaves the text as it was
\* leaves the filtered list, selection included, and the master list as
\* they are.
C31_FrameOfKeys ==
    [][EventHandled =>
          /\ (MovesSelection(a_event') \/ IsIgnored(a_event')) =>
                /\ a_pc' = "draw"
                /\ a_search' = a_search
                /\ a_entries' = a_entries
                /\ a_filtered'.entries = a_filtered.entries
          /\ IsIgnored(a_event') => a_filtered' = a_filtered
          /\ (IsForwarded(a_event') /\ a_search'.value = a_search.value) =>
                /\ a_pc' = "draw"
                /\ a_filtered' = a_filtered
                /\ a_entries' = a_entries]_vars

\* C31's case: the selection has been moved off the last entry of a filtered
\* list, and the key pressed last, Left, has moved the cursor into the search
\* text `oo`; the selection is still where it was moved to.
C31_Witness ==
    /\ a_pc = "draw"
    /\ a_event = KeyPress("Left")
    /\ a_search = [value |-> "oo", cursor |-> 1]
    /\ Len(a_filtered.entries) >= 2
    /\ Len(a_filtered.entries) < Len(a_entries)
    /\ a_filtered.state.selected.some
    /\ a_filtered.state.selected.val < Len(a_filtered.entries) - 1

(***************************************************************************)
(* C32                                                                     *)
(***************************************************************************)

\* The selection fits the filtered list: none for the empty list, an index
\* of the list otherwise.
SelectionValid ==
    LET selected == a_filtered.state.selected
        n == Len(a_filtered.entries)
    IN  /\ ~selected.some <=> n = 0
        /\ selected.some => selected.val \in 0..(n - 1)

\* C32: whenever the loop waits for the next event, that is after every
\* render, the selection fits the filtered list; and an Enter press on a
\* filtered list that has entries returns one.
C32_SelectionValidAtRead ==
    /\ [](a_pc = "read" => SelectionValid)
    /\ [][(EventHandled /\ IsPress(a_event', "Enter")
             /\ a_filtered.entries # <<>>) =>
            a_result'.ok /\ a_result'.entry.some]_vars

====
